---- MODULE Spec2Model ----
(***************************************************************************)
(* ParkWise: the availability / pricing / metadata / annotation drivers    *)
(* that share one SQLite store (carpark_availability, its history,         *)
(* carpark_info and the denormalised carpark_availability_join).           *)
(*                                                                         *)
(* db   is the committed database, what any reader sees (WAL mode).        *)
(* tx   is the working copy of the one writer that holds the write lock    *)
(*      (BEGIN IMMEDIATE .. COMMIT/ROLLBACK).                              *)
(* Nullable columns hold None (SQL NULL) or Some(v).                       *)
(* Text that the code passes through UPPER/TRIM/strip is a sequence of     *)
(* one-character strings, so that the conversion is computed.              *)
(***************************************************************************)
EXTENDS Integers, Sequences, FiniteSets, TLC

VARIABLES
  db,                 \* committed tables: avail, hist, info, join
  tx,                 \* working copy of the writer holding the lock
  txfail,             \* the open transaction has raised: its except-branch runs next
  lock,               \* "none" or the driver inside BEGIN IMMEDIATE .. COMMIT
  pc,                 \* position of each driver invocation
  clock,              \* wall clock, in ticks of half a second
  strict,             \* SNAPSHOT_STRICT_MIRROR (environment, fixed per deployment)
  on_conflict_ok,     \* the SQLite build accepts INSERT .. ON CONFLICT DO UPDATE
  use_legacy_upsert,  \* module global of carpark_avail_rates_util
  payload,            \* availability driver: payload returned by fetch_payload
  retrieved_at,       \* availability driver: retrieved_at of upsert()
  status,             \* what each driver's last invocation returned: "none", "ok",
                      \* "error", or "fetch_error" when the pull of the feed raised
  runs,               \* number of driver invocations started
  lastCommit,         \* history variable: the transaction that committed last
  first_ever,         \* history variable: first non-null total_lots ever upserted per key
  first_since,        \* history variable: same, since the key's row was last created
  records,            \* metadata driver: the records fetch_info_records returned
  mapping,            \* annotation driver: the mapping _load_ev_mapping_csv returned
  default_text,       \* annotation driver: default_text
  civil,              \* pricing driver: <<weekday, hour, minute>> of sgt_now
  counts,             \* metadata driver: total and unmatched read by rebuild_join_table
  second,             \* a second, concurrent invocation of the availability driver (in
                      \* another container): its payload, retrieved_at, use_legacy_upsert
  pull,               \* metadata driver: the loop of fetch_info_records and the source it reads
  csv_rows,           \* annotation driver: the rows of the CSV it downloaded
  users               \* user_profiles: the table, the transaction of create_user, the
                      \* request at hand and the response to it

\* the locals of the metadata, annotation and pricing drivers and of the second
\* invocation of the availability driver
others == <<records, mapping, default_text, civil, counts, second, pull,
           csv_rows, users>>

vars == <<db, tx, txfail, lock, pc, clock, strict, on_conflict_ok, use_legacy_upsert,
          payload, retrieved_at, status, runs, lastCommit, first_ever, first_since, others>>

----------------------------------------------------------------------------
(* Bounds of the model *)

MaxClock == 3
MaxCycles == 2
MaxTotalsCycles == 3

\* invocations of all drivers together in a run of the whole system
MaxRuns == 3

\* invocations of the metadata and the pricing driver together in a pricing run
MaxPricingRuns == 2

\* invocations of the availability and the annotation driver together in a merge run
MaxMergeRuns == 3

\* invocations of the availability driver, first and second together, in a run of
\* two concurrent invocations
MaxConcurrentCycles == 3

\* invocations of the metadata and the pricing driver together in a run over every
\* minute of the day
MaxWindowRuns == 2

\* invocations of the pricing driver on a view with annotations of any kind
MaxCarryRuns == 1

\* rows of the CSV of annotations, and invocations of the annotation driver on it
MaxCsvRows == 3
MaxLoaderRuns == 1

\* invocations of the availability and the annotation driver together in a run in
\* which a facility leaves the view and returns
MaxReturnRuns == 4

\* requests to the lambda of the user profiles
MaxRequests == 3

\* records of the registry and records of one page in a pull of the registry
MaxRecords == 8
MaxPageSize == 4

----------------------------------------------------------------------------
(* Values *)

None == <<>>
Some(v) == <<v>>

\* SQL COALESCE(a, b)
COALESCE(a, b) == IF a # None THEN a ELSE b

\* a JSON object without the key / with the key set to null
Absent == "absent"
JNull == "null"

\* dict.get(key, default)
DictGet(v, default) == IF v = Absent THEN default ELSE v

\* the texts int() accepts, with their values
IntText == ("0" :> 0) @@ ("1" :> 1) @@ ("2" :> 2) @@ ("5" :> 5) @@ ("7" :> 7)

\* int(x) raises on None, "" and malformed text
IntRaises(raw) == raw \notin DOMAIN IntText

PyInt(raw) == IntText[raw]

\* time.strftime("%Y-%m-%dT%H:%M:%SZ", time.gmtime()): one-second resolution,
\* the clock counts half seconds
Strftime(t) == t \div 2

----------------------------------------------------------------------------
(* Text normalisation: SQL UPPER(TRIM(x)), Python x.strip().upper() *)

UpperChar(c) ==
  CASE c = "b" -> "B" [] c = "c" -> "C" [] c = "e" -> "E" [] c = "n" -> "N"
    [] c = "o" -> "O" [] c = "s" -> "S" [] c = "y" -> "Y"
    [] OTHER -> c

UPPER(s) == [i \in 1..Len(s) |-> UpperChar(s[i])]

RECURSIVE LTrim(_)
LTrim(s) == IF s # <<>> /\ Head(s) = " " THEN LTrim(Tail(s)) ELSE s

RECURSIVE RTrim(_)
RTrim(s) ==
  IF s # <<>> /\ s[Len(s)] = " " THEN RTrim(SubSeq(s, 1, Len(s) - 1)) ELSE s

TRIM(s) == RTrim(LTrim(s))

UpperTrim(s) == UPPER(TRIM(s))

----------------------------------------------------------------------------
(* Tables as functions from primary key to row *)

Put(f, k, row) == [x \in DOMAIN f \cup {k} |-> IF x = k THEN row ELSE f[x]]

Restrict(f, S) == [x \in S |-> f[x]]

EmptyTable == <<>>

EmptyDb == [avail |-> EmptyTable, hist |-> <<>>, info |-> EmptyTable, join |-> EmptyTable]

\* rows of load_info_into_sqlite before its loop has run, total and unmatched of
\* rebuild_join_table before its two COUNT queries have run
NoCounts == [total |-> None, unmatched |-> None, info_rows |-> None]

\* user_profiles after ensure_schema on a new file, no request received
NoUsers ==
  [rows |-> {}, tx |-> {}, failed |-> FALSE, pc |-> "idle", body |-> <<>>,
   resp |-> [status |-> 0, error |-> ""], requests |-> 0]

\* fetch_info_records when no pull is under way: nothing to read, nothing read
NoPull == [source |-> <<>>, page_size |-> 1, offset |-> 0, all_records |-> <<>>,
           requests |-> 0, done |-> TRUE, failed |-> FALSE]

----------------------------------------------------------------------------
(* carpark_avail_rates_util.upsert_snapshot *)

AvailRow(lots_avail, total_lots, upd, seen) ==
  [lots_available |-> lots_avail, total_lots |-> total_lots,
   update_datetime |-> upd, last_seen_at |-> seen]

\* total_lots = COALESCE(excluded.total_lots, carpark_availability.total_lots)
NativeUpsertNewTotalWins(avail, k, lots_avail, total_lots, upd, seen) ==
  IF k \in DOMAIN avail
  THEN Put(avail, k, AvailRow(lots_avail, COALESCE(total_lots, avail[k].total_lots), upd, seen))
  ELSE Put(avail, k, AvailRow(lots_avail, total_lots, upd, seen))

\* update_datetime left out of the DO UPDATE SET list
NativeUpsertKeepsUpdateTime(avail, k, lots_avail, total_lots, upd, seen) ==
  IF k \in DOMAIN avail
  THEN Put(avail, k, AvailRow(lots_avail, COALESCE(avail[k].total_lots, total_lots),
                              avail[k].update_datetime, seen))
  ELSE Put(avail, k, AvailRow(lots_avail, total_lots, upd, seen))

\* INSERT .. ON CONFLICT(carpark_number, lot_type) DO UPDATE SET ..
NativeUpsert(avail, k, lots_avail, total_lots, upd, seen) ==
  IF k \in DOMAIN avail
  THEN Put(avail, k, AvailRow(lots_avail, COALESCE(avail[k].total_lots, total_lots), upd, seen))
  ELSE Put(avail, k, AvailRow(lots_avail, total_lots, upd, seen))

\* an UPDATE that sets total_lots = ? whatever the row holds
LegacyUpsertOverwritesTotal(avail, k, lots_avail, total_lots, upd, seen) ==
  Put(avail, k, AvailRow(lots_avail, total_lots, upd, seen))

\* UPDATE .. WHERE carpark_number = ? AND lot_type = ?; INSERT when rowcount = 0
LegacyUpsert(avail, k, lots_avail, total_lots, upd, seen) ==
  LET rowcount == IF k \in DOMAIN avail THEN 1 ELSE 0
      updated ==
        IF k \in DOMAIN avail
        THEN Put(avail, k,
               AvailRow(lots_avail,
                        IF avail[k].total_lots = None THEN total_lots ELSE avail[k].total_lots,
                        upd, seen))
        ELSE avail
  IN IF rowcount = 0
     THEN Put(updated, k, AvailRow(lots_avail, total_lots, upd, seen))
     ELSE updated

\* the result: the table and the value of the global use_legacy_upsert
upsert_snapshot(avail, legacy, k, lots_avail, total_lots, upd, seen) ==
  IF ~legacy /\ on_conflict_ok
  THEN [avail |-> NativeUpsert(avail, k, lots_avail, total_lots, upd, seen), legacy |-> legacy]
  ELSE [avail |-> LegacyUpsert(avail, k, lots_avail, total_lots, upd, seen), legacy |-> TRUE]

----------------------------------------------------------------------------
(* carpark_avail_rates_util.upsert: the statements between BEGIN and COMMIT *)

\* raw_total -> total_lots
ParseTotal(raw_total) ==
  IF DictGet(raw_total, JNull) \in {JNull, ""} THEN None
  ELSE IF IntRaises(raw_total) THEN None
  ELSE Some(PyInt(raw_total))

\* int(info.get("lots_available", 0)) raises
LotsRaises(info) == IntRaises(DictGet(info.lots_available, "0"))

LotsAvail(info) == PyInt(DictGet(info.lots_available, "0"))

\* cp.get("update_datetime")
UpdOf(cp) == IF DictGet(cp.update_datetime, JNull) = JNull THEN None ELSE Some(cp.update_datetime)

\* a unique index on carpark_number and lot_type alone
HistConflictOnKey(hist, cp_no, lot_type, upd) ==
  \E i \in 1..Len(hist) :
    /\ hist[i].carpark_number = cp_no
    /\ hist[i].lot_type = lot_type

\* the unique index idx_hist_unique: SQLite treats NULLs as distinct
HistConflict(hist, cp_no, lot_type, upd) ==
  /\ upd # None
  /\ \E i \in 1..Len(hist) :
       /\ hist[i].carpark_number = cp_no
       /\ hist[i].lot_type = lot_type
       /\ hist[i].update_datetime = upd

HistRow(cp_no, lot_type, lots_avail, upd, seen) ==
  [carpark_number |-> cp_no, lot_type |-> lot_type, lots_available |-> lots_avail,
   update_datetime |-> upd, retrieved_at |-> seen]

\* a pass with INSERT OR REPLACE: the row that conflicts is deleted
ProcessInfoReplaces(st, cp, info, seen) ==
  IF st.failed THEN st
  ELSE IF LotsRaises(info) THEN [st EXCEPT !.failed = TRUE]
  ELSE
    LET cp_no == cp.carpark_number
        upd == UpdOf(cp)
        lots_avail == LotsAvail(info)
        total_lots == ParseTotal(info.total_lots)
        up == upsert_snapshot(st.avail, st.legacy, <<cp_no, info.lot_type>>,
                              lots_avail, total_lots, upd, seen)
        Other(h) == ~HistConflict(<<h>>, cp_no, info.lot_type, upd)
    IN [st EXCEPT
          !.avail = up.avail,
          !.legacy = up.legacy,
          !.hist = Append(SelectSeq(@, Other), HistRow(cp_no, info.lot_type, lots_avail, upd, seen)),
          !.history_inserts = @ + 1]

\* a pass that counts every INSERT OR IGNORE, ignored or not
ProcessInfoCountsAttempts(st, cp, info, seen) ==
  IF st.failed THEN st
  ELSE IF LotsRaises(info) THEN [st EXCEPT !.failed = TRUE]
  ELSE
    LET cp_no == cp.carpark_number
        upd == UpdOf(cp)
        lots_avail == LotsAvail(info)
        total_lots == ParseTotal(info.total_lots)
        up == upsert_snapshot(st.avail, st.legacy, <<cp_no, info.lot_type>>,
                              lots_avail, total_lots, upd, seen)
        dup == HistConflict(st.hist, cp_no, info.lot_type, upd)
    IN [st EXCEPT
          !.avail = up.avail,
          !.legacy = up.legacy,
          !.hist = IF dup THEN @ ELSE Append(@, HistRow(cp_no, info.lot_type, lots_avail, upd, seen)),
          !.history_inserts = @ + 1]

\* one pass of the inner loop body; st.failed: an exception left the loop
ProcessInfo(st, cp, info, seen) ==
  IF st.failed THEN st
  ELSE IF LotsRaises(info) THEN [st EXCEPT !.failed = TRUE]
  ELSE
    LET cp_no == cp.carpark_number
        upd == UpdOf(cp)
        lots_avail == LotsAvail(info)
        total_lots == ParseTotal(info.total_lots)
        up == upsert_snapshot(st.avail, st.legacy, <<cp_no, info.lot_type>>,
                              lots_avail, total_lots, upd, seen)
        dup == HistConflict(st.hist, cp_no, info.lot_type, upd)
    IN [st EXCEPT
          !.avail = up.avail,
          !.legacy = up.legacy,
          !.hist = IF dup THEN @ ELSE Append(@, HistRow(cp_no, info.lot_type, lots_avail, upd, seen)),
          !.history_inserts = @ + (IF dup THEN 0 ELSE 1)]

RECURSIVE InfoLoop(_, _, _, _, _)
InfoLoop(st, cp, infos, i, seen) ==
  IF i > Len(infos) THEN st
  ELSE InfoLoop(ProcessInfo(st, cp, infos[i], seen), cp, infos, i + 1, seen)

RECURSIVE CarparkLoop(_, _, _, _)
CarparkLoop(st, carparks, i, seen) ==
  IF i > Len(carparks) THEN st
  ELSE CarparkLoop(InfoLoop(st, carparks[i], carparks[i].carpark_info, 1, seen),
                   carparks, i + 1, seen)

\* DELETE FROM carpark_availability WHERE last_seen_at < ?
EvictStale(avail, cutoff) ==
  Restrict(avail, {k \in DOMAIN avail : ~(avail[k].last_seen_at < cutoff)})

\* the eviction without its policy gate
MirrorStepUngated(avail, seen) == EvictStale(avail, seen)

\* the policy gate around the eviction
MirrorStep(avail, seen) == IF strict THEN EvictStale(avail, seen) ELSE avail

\* loop, then eviction; nothing after an exception
UpsertBody(d, legacy, carparks, seen) ==
  LET st0 == [avail |-> d.avail, hist |-> d.hist, legacy |-> legacy,
              history_inserts |-> 0, failed |-> FALSE]
      st1 == CarparkLoop(st0, carparks, 1, seen)
  IN IF st1.failed THEN st1
     ELSE [st1 EXCEPT !.avail = MirrorStep(st1.avail, seen)]

----------------------------------------------------------------------------
(* The denormalised view: rebuild_join_snapshot and rebuild_join_table *)

\* the columns of carpark_info the model keeps (night_parking stands for the static
\* text attributes, which the code copies all alike), all NULL: the i.* of a
\* snapshot row without a match
NullInfo ==
  [night_parking |-> None, is_central |-> None, carpark_rate |-> None,
   current_rate_30min |-> None, active_cap_type |-> None, active_cap_amount |-> None,
   rate_updated_at |-> None]

\* an inner join: the snapshot rows without a match are dropped
InnerJoin(avail, info) ==
  {[key |-> k, a |-> avail[k], i |-> info[UpperTrim(k[1])],
    i_carpark_number |-> Some(UpperTrim(k[1]))] :
     k \in {x \in DOMAIN avail : UpperTrim(x[1]) \in DOMAIN info}}

\* FROM carpark_availability AS a LEFT JOIN carpark_info AS i
\*   ON UPPER(TRIM(a.carpark_number)) = i.carpark_number
LeftJoin(avail, info) ==
  UNION { LET ms == {m \in DOMAIN info : UpperTrim(k[1]) = m}
          IN IF ms = {}
             THEN {[key |-> k, a |-> avail[k], i |-> NullInfo, i_carpark_number |-> None]}
             ELSE {[key |-> k, a |-> avail[k], i |-> info[m], i_carpark_number |-> Some(m)] : m \in ms}
        : k \in DOMAIN avail }

\* has_info set whatever the join found
HasInfoAlways(r) == IF r.i_carpark_number = None THEN 1 ELSE 1

\* CASE WHEN i.carpark_number IS NULL THEN 0 ELSE 1 END
HasInfo(r) == IF r.i_carpark_number = None THEN 0 ELSE 1

\* a SELECT list that leaves the two rates out
SnapshotSelectWithoutRates(r) ==
  [key |-> r.key,
   row |-> [lots_available |-> r.a.lots_available, total_lots |-> r.a.total_lots,
            update_datetime |-> r.a.update_datetime, night_parking |-> r.i.night_parking,
            carpark_rate |-> None, current_rate_30min |-> None,
            active_cap_type |-> r.i.active_cap_type, active_cap_amount |-> r.i.active_cap_amount,
            ev_lot_location |-> None, has_info |-> HasInfo(r)]]

\* the SELECT list of rebuild_join_snapshot; ev_lot_location is not inserted
SnapshotSelect(r) ==
  [key |-> r.key,
   row |-> [lots_available |-> r.a.lots_available, total_lots |-> r.a.total_lots,
            update_datetime |-> r.a.update_datetime, night_parking |-> r.i.night_parking,
            carpark_rate |-> r.i.carpark_rate, current_rate_30min |-> r.i.current_rate_30min,
            active_cap_type |-> r.i.active_cap_type, active_cap_amount |-> r.i.active_cap_amount,
            ev_lot_location |-> None, has_info |-> HasInfo(r)]]

\* the SELECT list of rebuild_join_table: no pricing column, no ev_lot_location
TableSelect(r) ==
  [key |-> r.key,
   row |-> [lots_available |-> r.a.lots_available, total_lots |-> r.a.total_lots,
            update_datetime |-> r.a.update_datetime, night_parking |-> r.i.night_parking,
            carpark_rate |-> None, current_rate_30min |-> None,
            active_cap_type |-> None, active_cap_amount |-> None,
            ev_lot_location |-> None, has_info |-> HasInfo(r)]]

\* INSERT INTO carpark_availability_join .. SELECT: PRIMARY KEY (carpark_number, lot_type)
PkViolation(rows) == \E r1, r2 \in rows : r1 # r2 /\ r1.key = r2.key

InsertAll(rows) ==
  [k \in {r.key : r \in rows} |-> (CHOOSE r \in rows : r.key = k).row]

\* byte values of the characters of the annotation texts
CharCode == (" " :> 32) @@ ("1" :> 49) @@ ("2" :> 50) @@ ("L" :> 76) @@ ("N" :> 78) @@ ("o" :> 111)

\* a < b in SQLite's BINARY collation
RECURSIVE TextLess(_, _)
TextLess(a, b) ==
  IF b = <<>> THEN FALSE
  ELSE IF a = <<>> THEN TRUE
  ELSE IF Head(a) # Head(b) THEN CharCode[Head(a)] < CharCode[Head(b)]
  ELSE TextLess(Tail(a), Tail(b))

\* MIN(ev_lot_location) over a group
MaxEvPicksLeast(S) ==
  LET vals == {v \in S : v # None}
  IN IF vals = {} THEN None
     ELSE CHOOSE v \in vals : \A w \in vals : ~TextLess(w[1], v[1])

\* MAX(ev_lot_location) over a group: NULLs are skipped, NULL when all are NULL
MaxEv(S) ==
  LET vals == {v \in S : v # None}
  IN IF vals = {} THEN None
     ELSE CHOOSE v \in vals : \A w \in vals : ~TextLess(v[1], w[1])

\* CREATE TEMP TABLE _ev_cache AS SELECT carpark_number, MAX(ev_lot_location) ..
\*   GROUP BY carpark_number
EvCache(join) ==
  [cp \in {k[1] : k \in DOMAIN join} |->
     MaxEv({join[k].ev_lot_location : k \in {x \in DOMAIN join : x[1] = cp}})]

\* the subquery correlated on c.carpark_number <> j.carpark_number
CacheLookupOther(cache, cp_no) == MaxEv({cache[c] : c \in DOMAIN cache \ {cp_no}})

\* (SELECT c.ev_lot_location FROM _ev_cache c WHERE c.carpark_number = j.carpark_number)
CacheLookup(cache, cp_no) == IF cp_no \in DOMAIN cache THEN cache[cp_no] ELSE None

\* an UPDATE that writes a default text where the cache has nothing
RestoreEvOrDefault(join, cache) ==
  [k \in DOMAIN join |->
     [join[k] EXCEPT !.ev_lot_location = COALESCE(CacheLookup(cache, k[1]), Some(<<"N", "o">>))]]

\* UPDATE carpark_availability_join SET ev_lot_location = COALESCE((SELECT ..), ev_lot_location)
RestoreEv(join, cache) ==
  [k \in DOMAIN join |->
     [join[k] EXCEPT !.ev_lot_location = COALESCE(CacheLookup(cache, k[1]), @)]]

\* the statements of rebuild_join_snapshot between BEGIN and COMMIT
RebuildJoinSnapshotBody(d) ==
  LET cache == EvCache(d.join)
      rows == {SnapshotSelect(r) : r \in LeftJoin(d.avail, d.info)}
  IN IF PkViolation(rows) THEN [db |-> d, failed |-> TRUE]
     ELSE [db |-> [d EXCEPT !.join = RestoreEv(InsertAll(rows), cache)], failed |-> FALSE]

\* the statements of rebuild_join_table between BEGIN and COMMIT
RebuildJoinTableBody(d) ==
  LET rows == {TableSelect(r) : r \in LeftJoin(d.avail, d.info)}
  IN IF PkViolation(rows) THEN [db |-> d, failed |-> TRUE]
     ELSE [db |-> [d EXCEPT !.join = InsertAll(rows)], failed |-> FALSE]

----------------------------------------------------------------------------
(* Pricing: mark_central_and_base_rates and refresh_time_dependent_rates.   *)
(* REAL amounts are counted in tenths: 1.2 is 12, 0.6 is 6, 5.0 is 50.      *)

Text(a, b) == <<a, b>>

Text3(a, b, c) == <<a, b, c>>

CENTRAL ==
  {Text3("A", "C", "B"), Text3("B", "B", "B"), <<"B", "R", "B", "1">>, Text("C", "Y"),
   <<"D", "U", "X", "M">>, Text3("H", "L", "M"), Text3("K", "A", "B"), Text3("K", "A", "M"),
   Text3("K", "A", "S"), Text3("P", "R", "M"), Text3("S", "L", "S"), Text3("S", "R", "1"),
   Text3("S", "R", "2"), Text3("T", "P", "M"), Text3("U", "C", "S"), Text3("W", "C", "B")}

\* a pass that tags the facilities of the list and leaves the others as they are
MarkBodyListOnly(d) ==
  LET marked == [cp \in DOMAIN d.info |->
                   IF cp \in CENTRAL THEN [d.info[cp] EXCEPT !.is_central = Some(1)]
                   ELSE d.info[cp]]
      rated == [cp \in DOMAIN marked |->
                  [marked[cp] EXCEPT
                     !.carpark_rate = Some(IF marked[cp].is_central = Some(1) THEN 12 ELSE 6)]]
  IN [d EXCEPT !.info = rated]

\* the two UPDATE statements of mark_central_and_base_rates
MarkBody(d) ==
  LET marked == [cp \in DOMAIN d.info |->
                   [d.info[cp] EXCEPT !.is_central = Some(IF cp \in CENTRAL THEN 1 ELSE 0)]]
      rated == [cp \in DOMAIN marked |->
                  [marked[cp] EXCEPT
                     !.carpark_rate = Some(IF marked[cp].is_central = Some(1) THEN 12 ELSE 6)]]
  IN [d EXCEPT !.info = rated]

\* a night that starts at 22:00
InNightFrom22(hh, mm) == (hh >= 22) \/ (hh < 7)

\* in_night: 22:30-07:00
InNight(hh, mm) == (hh > 22 \/ (hh = 22 /\ mm >= 30)) \/ (hh < 7)

\* a day that starts after 07:00
InDayAfterSeven(hh, mm) == (hh > 7 \/ (hh = 7 /\ mm > 0)) /\ (hh < 22 \/ (hh = 22 /\ mm < 30))

\* in_day: 07:00-22:30
InDay(hh, mm) == (hh > 7 \/ (hh = 7 /\ mm >= 0)) /\ (hh < 22 \/ (hh = 22 /\ mm < 30))

\* is_central = 1 if is_central else 0
CentralFlag(is_central) == IF is_central \in {None, Some(0)} THEN 0 ELSE 1

StartsWith(s, prefix) == Len(s) >= Len(prefix) /\ SubSeq(s, 1, Len(prefix)) = prefix

\* nps = (night_parking or "").strip().upper().startswith("YES")
Nps(night_parking) ==
  StartsWith(UPPER(TRIM(IF night_parking = None THEN <<>> ELSE night_parking[1])),
             Text3("Y", "E", "S"))

\* the premium rate on Monday to Friday only
CurrentRateWeekdays(is_central, wk, hh) ==
  IF is_central = 1 /\ wk <= 4 /\ (7 <= hh /\ hh < 17) THEN 12 ELSE 6

CurrentRate(is_central, wk, hh) ==
  IF is_central = 1 /\ wk <= 5 /\ (7 <= hh /\ hh < 17) THEN 12 ELSE 6

\* <<cap_type, cap_amt>>
Cap(is_central, nps, hh, mm) ==
  IF nps /\ InNight(hh, mm) THEN <<Some("NPS_NIGHT_CAP"), Some(50)>>
  ELSE IF InDay(hh, mm) THEN <<Some("DAY_CAP"), Some(IF is_central = 1 THEN 200 ELSE 120)>>
  ELSE <<None, None>>

\* the loop of refresh_time_dependent_rates: one UPDATE per row of carpark_info
RefreshBody(d, wk, hh, mm, stamp) ==
  [d EXCEPT !.info =
     [cp \in DOMAIN d.info |->
        LET is_central == CentralFlag(d.info[cp].is_central)
            cap == Cap(is_central, Nps(d.info[cp].night_parking), hh, mm)
        IN [d.info[cp] EXCEPT
              !.current_rate_30min = Some(CurrentRate(is_central, wk, hh)),
              !.active_cap_type = cap[1],
              !.active_cap_amount = cap[2],
              !.rate_updated_at = Some(stamp)]]]

----------------------------------------------------------------------------
(* Metadata: load_info_into_sqlite *)

\* cp = (rec.get("car_park_no") or rec.get("carpark_number") or "").strip().upper();
\* a missing, null or empty field is the empty text
RecId(rec) ==
  UPPER(TRIM(IF rec.car_park_no # <<>> THEN rec.car_park_no ELSE rec.carpark_number))

\* the row the INSERT writes: the static columns, the pricing columns NULL
InfoRow(rec) == [NullInfo EXCEPT !.night_parking = Some(rec.night_parking)]

\* st.failed: the INSERT hit the PRIMARY KEY of carpark_info
RECURSIVE LoadLoop(_, _, _)
LoadLoop(st, recs, i) ==
  IF i > Len(recs) \/ st.failed THEN st
  ELSE LET cp == RecId(recs[i])
       IN LoadLoop(
            IF cp = <<>> THEN st
            ELSE IF cp \in DOMAIN st.info THEN [st EXCEPT !.failed = TRUE]
            ELSE [st EXCEPT !.info = Put(@, cp, InfoRow(recs[i])), !.rows = @ + 1],
            recs, i + 1)

\* a replace that empties carpark_availability as well
LoadInfoBodyEmptiesSnapshot(d, recs) ==
  LET st == LoadLoop([info |-> EmptyTable, rows |-> 0, failed |-> FALSE], recs, 1)
  IN [db |-> [d EXCEPT !.info = st.info, !.avail = EmptyTable], rows |-> st.rows,
      failed |-> st.failed]

\* the loop without the DELETE before it
LoadInfoBodyKeepsOld(d, recs) ==
  LET st == LoadLoop([info |-> d.info, rows |-> 0, failed |-> FALSE], recs, 1)
  IN [db |-> [d EXCEPT !.info = st.info], rows |-> st.rows, failed |-> st.failed]

\* DELETE FROM carpark_info, then the loop
LoadInfoBody(d, recs) ==
  LET st == LoadLoop([info |-> EmptyTable, rows |-> 0, failed |-> FALSE], recs, 1)
  IN [db |-> [d EXCEPT !.info = st.info], rows |-> st.rows, failed |-> st.failed]

----------------------------------------------------------------------------
(* Annotations: _apply_ev_mapping *)

\* ev_lot_location IS NULL OR TRIM(ev_lot_location) = ''
IsBlank(ev) == ev = None \/ TRIM(ev[1]) = <<>>

\* the default written to every row
DefaultAll(join, text) ==
  [k \in DOMAIN join |-> [join[k] EXCEPT !.ev_lot_location = Some(text)]]

\* UPDATE .. SET ev_lot_location = ? WHERE ev_lot_location IS NULL OR TRIM(..) = ''
DefaultBlanks(join, text) ==
  [k \in DOMAIN join |->
     IF IsBlank(join[k].ev_lot_location) THEN [join[k] EXCEPT !.ev_lot_location = Some(text)]
     ELSE join[k]]

\* the entry matched on the carpark_number as stored
ApplyEntryRawKey(join, cp_no, ev_loc) ==
  [k \in DOMAIN join |->
     IF k[1] = cp_no THEN [join[k] EXCEPT !.ev_lot_location = Some(ev_loc)]
     ELSE join[k]]

\* the entry written without a WHERE clause
ApplyEntryAll(join, cp_no, ev_loc) ==
  [k \in DOMAIN join |-> [join[k] EXCEPT !.ev_lot_location = Some(ev_loc)]]

\* UPDATE .. SET ev_lot_location = ? WHERE UPPER(TRIM(carpark_number)) = ?
ApplyEntry(join, cp_no, ev_loc) ==
  [k \in DOMAIN join |->
     IF UpperTrim(k[1]) = cp_no THEN [join[k] EXCEPT !.ev_lot_location = Some(ev_loc)]
     ELSE join[k]]

\* for cp_no, ev_loc in mapping.items(): the entries in the order of the dict
RECURSIVE ApplyEntries(_, _, _)
ApplyEntries(join, entries, i) ==
  IF i > Len(entries) THEN join
  ELSE ApplyEntries(ApplyEntry(join, entries[i][1], entries[i][2]), entries, i + 1)

\* the statements of _apply_ev_mapping between BEGIN and COMMIT
ApplyEvBody(d, entries, text) ==
  [d EXCEPT !.join = ApplyEntries(DefaultBlanks(d.join, text), entries, 1)]

----------------------------------------------------------------------------
(* The upstream feed: payload["items"][0]["carpark_data"] *)

CY == <<"C", "Y">>
cy_ == <<"c", "y", " ">>
B2 == <<"B", "2">>

Info(lot_type, lots_available, total_lots) ==
  [lot_type |-> lot_type, lots_available |-> lots_available, total_lots |-> total_lots]

Carpark(cp_no, upd, infos) ==
  [carpark_number |-> cp_no, update_datetime |-> upd, carpark_info |-> infos]

\* every list of at most two entries of S
UpTo2(S) == {<<>>} \cup {<<a>> : a \in S} \cup {<<a, b>> : a, b \in S}

\* feed of the snapshot-store specification: two ids that differ in case and
\* padding, fresh and repeated update times, good and malformed counts
AvailCarparks ==
  {Carpark(id, o[1], <<Info("C", o[2], o[3])>>) :
     id \in {CY, cy_},
     o \in {<<"t1", "1", Absent>>, <<JNull, "2", Absent>>, <<"t1", "x", Absent>>}}

AvailFeed == UpTo2(AvailCarparks)

\* feed of the fill-once specification: every form of total_lots the parser
\* distinguishes, on one update time and one count
TotalsCarparks ==
  {Carpark(CY, "t1", <<Info("C", "1", total)>>) : total \in {Absent, "", "x", "5", "7"}}
  \cup {Carpark(cy_, "t1", <<Info("C", "1", "5")>>), Carpark(cy_, "t1", <<Info("C", "x", "5")>>)}

TotalsFeed == UpTo2(TotalsCarparks)

----------------------------------------------------------------------------
(* Transactions: BEGIN IMMEDIATE .. COMMIT / ROLLBACK on the shared store *)

\* "avail2" is the second invocation of the availability driver
Drivers == {"avail", "avail2", "rates", "info", "ev"}

Goto(d, loc) == pc' = [pc EXCEPT ![d] = loc]

Returns(d, st) == status' = [status EXCEPT ![d] = st]

\* a BEGIN that does not take the write lock at once
BeginDeferred(d, work, failed) ==
  /\ lock' = d
  /\ tx' = work
  /\ txfail' = failed

\* BEGIN IMMEDIATE succeeds and the statements run on the working copy
Begin(d, work, failed) ==
  /\ lock = "none"
  /\ lock' = d
  /\ tx' = work
  /\ txfail' = failed

\* COMMIT
Commit(d, name) ==
  /\ lock = d
  /\ ~txfail
  /\ db' = tx
  /\ tx' = EmptyDb
  /\ lock' = "none"
  /\ lastCommit' = name
  /\ UNCHANGED txfail

\* except Exception: ROLLBACK; raise
Rollback(d) ==
  /\ lock = d
  /\ txfail
  /\ txfail' = FALSE
  /\ tx' = EmptyDb
  /\ lock' = "none"
  /\ UNCHANGED <<db, lastCommit>>

\* BEGIN IMMEDIATE gives up after busy_timeout: "database is locked" is raised
\* before the try block
Busy(d) ==
  /\ lock \notin {"none", d}
  /\ UNCHANGED <<db, tx, txfail, lock, lastCommit>>

----------------------------------------------------------------------------
(* History variables for the fill-once claim *)

\* the observations of a payload in the order the loops visit them
RECURSIVE Observations(_, _)
Observations(carparks, i) ==
  IF i > Len(carparks) THEN <<>>
  ELSE [j \in 1..Len(carparks[i].carpark_info) |->
          [cp |-> carparks[i], info |-> carparks[i].carpark_info[j]]]
       \o Observations(carparks, i + 1)

ObsKey(o) == <<o.cp.carpark_number, o.info.lot_type>>

ObsKeys(carparks) ==
  {ObsKey(Observations(carparks, 1)[i]) : i \in 1..Len(Observations(carparks, 1))}

\* some observation of the payload makes int() raise
BatchFails(carparks) ==
  \E i \in 1..Len(Observations(carparks, 1)) : LotsRaises(Observations(carparks, 1)[i].info)

RECURSIVE FirstTotals(_, _, _)
FirstTotals(f, obs, i) ==
  IF i > Len(obs) THEN f
  ELSE FirstTotals(
         IF ObsKey(obs[i]) \in DOMAIN f /\ f[ObsKey(obs[i])] # None THEN f
         ELSE Put(f, ObsKey(obs[i]), ParseTotal(obs[i].info.total_lots)),
         obs, i + 1)

----------------------------------------------------------------------------
(* update_carpark_availability.lambda_handler *)

\* payload = fetch_payload(), then upsert(payload) up to its BEGIN: the clock is
\* read for retrieved_at, at most maxWait ticks after the last reading
FetchFrom(F, maxCycles, maxWait) ==
  /\ pc.avail = "idle"
  /\ runs < maxCycles
  /\ runs' = runs + 1
  /\ \E p \in F : payload' = p
  /\ \E t \in (clock + 1)..(clock + maxWait) :
       t <= MaxClock /\ clock' = t /\ retrieved_at' = Strftime(t)
  /\ Goto("avail", "stamped")
  /\ Returns("avail", "none")
  /\ UNCHANGED <<db, tx, txfail, lock, strict, on_conflict_ok, use_legacy_upsert,
                 lastCommit, first_ever, first_since, others>>

\* the exception of the pull swallowed: the handler goes on to the rebuild
FetchErrorGoesOn ==
  /\ pc.avail = "idle"
  /\ status.avail # "fetch_error"
  /\ Returns("avail", "fetch_error")
  /\ Goto("avail", "upserted")
  /\ UNCHANGED <<db, tx, txfail, lock, clock, strict, on_conflict_ok, use_legacy_upsert,
                 payload, retrieved_at, runs, lastCommit, first_ever, first_since, others>>

\* resp.raise_for_status() raises: the invocation ends before anything is written
FetchError ==
  /\ pc.avail = "idle"
  /\ status.avail # "fetch_error"
  /\ Returns("avail", "fetch_error")
  /\ UNCHANGED <<db, tx, txfail, lock, pc, clock, strict, on_conflict_ok, use_legacy_upsert,
                 payload, retrieved_at, runs, lastCommit, first_ever, first_since, others>>

\* BEGIN IMMEDIATE, the loop over the payload and the eviction
UpsertBegin ==
  /\ pc.avail = "stamped"
  /\ LET b == UpsertBody(db, use_legacy_upsert, payload, retrieved_at)
     IN /\ Begin("avail", [db EXCEPT !.avail = b.avail, !.hist = b.hist], b.failed)
        /\ use_legacy_upsert' = b.legacy
  /\ Goto("avail", "upsert_tx")
  /\ UNCHANGED <<db, clock, strict, on_conflict_ok, payload, retrieved_at, status, runs,
                 lastCommit, first_ever, first_since, others>>

UpsertBusy ==
  /\ pc.avail = "stamped"
  /\ Busy("avail")
  /\ Goto("avail", "idle")
  /\ Returns("avail", "error")
  /\ payload' = <<>>
  /\ UNCHANGED <<clock, strict, on_conflict_ok, use_legacy_upsert, retrieved_at, runs,
                 first_ever, first_since, others>>

UpsertCommit ==
  /\ pc.avail = "upsert_tx"
  /\ Commit("avail", "upsert")
  /\ first_ever' = FirstTotals(first_ever, Observations(payload, 1), 1)
  /\ first_since' = Restrict(FirstTotals(first_since, Observations(payload, 1), 1), DOMAIN tx.avail)
  /\ Goto("avail", "upserted")
  /\ UNCHANGED <<clock, strict, on_conflict_ok, use_legacy_upsert, payload, retrieved_at,
                 status, runs, others>>

\* the except branch commits what the loop had written
UpsertRollbackCommits ==
  /\ pc.avail = "upsert_tx"
  /\ lock = "avail"
  /\ txfail
  /\ txfail' = FALSE
  /\ db' = tx
  /\ tx' = EmptyDb
  /\ lock' = "none"
  /\ Goto("avail", "idle")
  /\ Returns("avail", "error")
  /\ payload' = <<>>
  /\ UNCHANGED <<clock, strict, on_conflict_ok, use_legacy_upsert, retrieved_at, runs,
                 lastCommit, first_ever, first_since, others>>

UpsertRollback ==
  /\ pc.avail = "upsert_tx"
  /\ Rollback("avail")
  /\ Goto("avail", "idle")
  /\ Returns("avail", "error")
  /\ payload' = <<>>
  /\ UNCHANGED <<clock, strict, on_conflict_ok, use_legacy_upsert, retrieved_at, runs,
                 first_ever, first_since, others>>

----------------------------------------------------------------------------
(* update_carpark_availability.lambda_handler, invoked a second time while the *)
(* first invocation runs: the same steps on the locals of the second container *)

SecondFetchFrom(F, maxCycles, maxWait) ==
  /\ pc.avail2 = "idle"
  /\ runs < maxCycles
  /\ runs' = runs + 1
  /\ \E p \in F :
       \E t \in (clock + 1)..(clock + maxWait) :
         /\ t <= MaxClock
         /\ clock' = t
         /\ second' = [second EXCEPT !.payload = p, !.retrieved_at = Strftime(t)]
  /\ Goto("avail2", "stamped")
  /\ Returns("avail2", "none")
  /\ UNCHANGED <<db, tx, txfail, lock, strict, on_conflict_ok, use_legacy_upsert, payload,
                 retrieved_at, lastCommit, first_ever, first_since, records, mapping,
                 default_text, civil, counts, pull, csv_rows, users>>

SecondUpsertBegin ==
  /\ pc.avail2 = "stamped"
  /\ LET b == UpsertBody(db, second.use_legacy_upsert, second.payload, second.retrieved_at)
     IN /\ Begin("avail2", [db EXCEPT !.avail = b.avail, !.hist = b.hist], b.failed)
        /\ second' = [second EXCEPT !.use_legacy_upsert = b.legacy]
  /\ Goto("avail2", "upsert_tx")
  /\ UNCHANGED <<db, clock, strict, on_conflict_ok, use_legacy_upsert, payload, retrieved_at,
                 status, runs, lastCommit, first_ever, first_since, records, mapping,
                 default_text, civil, counts, pull, csv_rows, users>>

SecondUpsertBusy ==
  /\ pc.avail2 = "stamped"
  /\ Busy("avail2")
  /\ Goto("avail2", "idle")
  /\ Returns("avail2", "error")
  /\ second' = [second EXCEPT !.payload = <<>>]
  /\ UNCHANGED <<clock, strict, on_conflict_ok, use_legacy_upsert, payload, retrieved_at,
                 runs, first_ever, first_since, records, mapping, default_text, civil,
                 counts, pull, csv_rows, users>>

SecondUpsertCommit ==
  /\ pc.avail2 = "upsert_tx"
  /\ Commit("avail2", "upsert")
  /\ first_ever' = FirstTotals(first_ever, Observations(second.payload, 1), 1)
  /\ first_since' = Restrict(FirstTotals(first_since, Observations(second.payload, 1), 1),
                             DOMAIN tx.avail)
  /\ Goto("avail2", "upserted")
  /\ second' = [second EXCEPT !.payload = <<>>]
  /\ UNCHANGED <<clock, strict, on_conflict_ok, use_legacy_upsert, payload, retrieved_at,
                 status, runs, records, mapping, default_text, civil, counts, pull, csv_rows, users>>

SecondUpsertRollback ==
  /\ pc.avail2 = "upsert_tx"
  /\ Rollback("avail2")
  /\ Goto("avail2", "idle")
  /\ Returns("avail2", "error")
  /\ second' = [second EXCEPT !.payload = <<>>]
  /\ UNCHANGED <<clock, strict, on_conflict_ok, use_legacy_upsert, payload, retrieved_at,
                 runs, first_ever, first_since, records, mapping, default_text, civil,
                 counts, pull, csv_rows, users>>

----------------------------------------------------------------------------
(* rebuild_join_snapshot(conn), called by the availability and the pricing driver *)

\* the handler of d is over: its local variables are gone
Forget(d) ==
  /\ mapping' = IF d = "ev" THEN <<>> ELSE mapping
  /\ default_text' = IF d = "ev" THEN <<>> ELSE default_text
  /\ civil' = IF d = "rates" THEN <<0, 0, 0>> ELSE civil
  /\ counts' = IF d = "info" THEN NoCounts ELSE counts
  /\ csv_rows' = IF d = "ev" THEN <<>> ELSE csv_rows
  /\ UNCHANGED <<second, pull, users>>

BeforeRebuild(d) == IF d \in {"avail", "avail2"} THEN "upserted" ELSE "refreshed"

RebuildSnapshotBegin(d) ==
  /\ pc[d] = BeforeRebuild(d)
  /\ LET b == RebuildJoinSnapshotBody(db) IN Begin(d, b.db, b.failed)
  /\ Goto(d, "rebuild_tx")
  /\ payload' = IF d = "avail" THEN <<>> ELSE payload
  /\ UNCHANGED <<db, clock, strict, on_conflict_ok, use_legacy_upsert, retrieved_at,
                 status, runs, lastCommit, first_ever, first_since, others>>

\* "database is locked" swallowed: the handler goes on to its exports
RebuildSnapshotBusyIgnored(d) ==
  /\ pc[d] = BeforeRebuild(d)
  /\ Busy(d)
  /\ Goto(d, "exporting")
  /\ payload' = IF d = "avail" THEN <<>> ELSE payload
  /\ UNCHANGED <<clock, strict, on_conflict_ok, use_legacy_upsert, retrieved_at, runs,
                 status, first_ever, first_since, others>>

RebuildSnapshotBusy(d) ==
  /\ pc[d] = BeforeRebuild(d)
  /\ Busy(d)
  /\ Goto(d, "idle")
  /\ Returns(d, "error")
  /\ Forget(d)
  /\ payload' = IF d = "avail" THEN <<>> ELSE payload
  /\ UNCHANGED <<clock, strict, on_conflict_ok, use_legacy_upsert, retrieved_at, runs,
                 first_ever, first_since, records>>

RebuildSnapshotCommit(d) ==
  /\ pc[d] = "rebuild_tx"
  /\ Commit(d, "rebuild_join_snapshot")
  /\ Goto(d, "exporting")
  /\ UNCHANGED <<clock, strict, on_conflict_ok, use_legacy_upsert, payload, retrieved_at,
                 status, runs, first_ever, first_since, others>>

\* the except branch; the statements of the rebuild raise in no state of the
\* specifications below, which therefore leave this step out
RebuildSnapshotRollback(d) ==
  /\ pc[d] = "rebuild_tx"
  /\ Rollback(d)
  /\ Goto(d, "idle")
  /\ Returns(d, "error")
  /\ Forget(d)
  /\ UNCHANGED <<clock, strict, on_conflict_ok, use_legacy_upsert, payload, retrieved_at,
                 runs, first_ever, first_since, records>>

\* the exports to S3 succeed and the handler returns statusCode 200
ReturnOk(d) ==
  /\ pc[d] = "exporting"
  /\ Goto(d, "idle")
  /\ Returns(d, "ok")
  /\ Forget(d)
  /\ UNCHANGED <<db, tx, txfail, lock, clock, strict, on_conflict_ok, use_legacy_upsert,
                 payload, retrieved_at, runs, lastCommit, first_ever, first_since, records>>

\* an export to S3 raises: the invocation fails after its transactions committed
ExportError(d) ==
  /\ pc[d] = "exporting"
  /\ Goto(d, "idle")
  /\ Returns(d, "error")
  /\ Forget(d)
  /\ UNCHANGED <<db, tx, txfail, lock, clock, strict, on_conflict_ok, use_legacy_upsert,
                 payload, retrieved_at, runs, lastCommit, first_ever, first_since, records>>

----------------------------------------------------------------------------
(* update_carpark_rates.lambda_handler *)

\* the instants the pricing driver reads as <<weekday, hour, minute>>: a weekday
\* morning and a Sunday night
CivilTimes == {<<2, 10, 0>>, <<6, 23, 0>>}

\* get_db(), then mark_central_and_base_rates up to its BEGIN
MarkBegin(maxRuns) ==
  /\ pc.rates = "idle"
  /\ runs < maxRuns
  /\ runs' = runs + 1
  /\ Begin("rates", MarkBody(db), FALSE)
  /\ Goto("rates", "mark_tx")
  /\ Returns("rates", "none")
  /\ UNCHANGED <<db, clock, strict, on_conflict_ok, use_legacy_upsert, payload, retrieved_at,
                 lastCommit, first_ever, first_since, others>>

MarkBusy(maxRuns) ==
  /\ pc.rates = "idle"
  /\ runs < maxRuns
  /\ runs' = runs + 1
  /\ Busy("rates")
  /\ Returns("rates", "error")
  /\ UNCHANGED <<pc, clock, strict, on_conflict_ok, use_legacy_upsert, payload, retrieved_at,
                 first_ever, first_since, others>>

MarkCommit ==
  /\ pc.rates = "mark_tx"
  /\ Commit("rates", "mark_central_and_base_rates")
  /\ Goto("rates", "marked")
  /\ UNCHANGED <<clock, strict, on_conflict_ok, use_legacy_upsert, payload, retrieved_at,
                 status, runs, first_ever, first_since, others>>

\* refresh_time_dependent_rates reads the clock, then BEGIN and the loop
RefreshBeginAt(times) ==
  /\ pc.rates = "marked"
  /\ \E c \in times :
       /\ civil' = c
       /\ Begin("rates", RefreshBody(db, c[1], c[2], c[3], Strftime(clock)), FALSE)
  /\ Goto("rates", "refresh_tx")
  /\ UNCHANGED <<db, clock, strict, on_conflict_ok, use_legacy_upsert, payload, retrieved_at,
                 status, runs, lastCommit, first_ever, first_since, records, mapping,
                 default_text, counts, second, pull, csv_rows, users>>

RefreshBegin == RefreshBeginAt(CivilTimes)

RefreshBusy ==
  /\ pc.rates = "marked"
  /\ Busy("rates")
  /\ Goto("rates", "idle")
  /\ Returns("rates", "error")
  /\ UNCHANGED <<clock, strict, on_conflict_ok, use_legacy_upsert, payload, retrieved_at,
                 runs, first_ever, first_since, others>>

RefreshCommit ==
  /\ pc.rates = "refresh_tx"
  /\ Commit("rates", "refresh_time_dependent_rates")
  /\ Goto("rates", "refreshed")
  /\ UNCHANGED <<clock, strict, on_conflict_ok, use_legacy_upsert, payload, retrieved_at,
                 status, runs, first_ever, first_since, others>>

----------------------------------------------------------------------------
(* ingest_hdb_carpark_info.lambda_handler *)

YES == <<"Y", "E", "S">>
NO == <<"N", "O">>

Rec(car_park_no, carpark_number, night_parking) ==
  [car_park_no |-> car_park_no, carpark_number |-> carpark_number,
   night_parking |-> night_parking]

\* the record lists the registry serves: ids under either field name, in either
\* case, padded, a record without an id, and the same id twice
InfoFeed ==
  {<<>>,
   <<Rec(CY, <<>>, YES)>>,
   <<Rec(<<>>, <<"b", "2", " ">>, NO), Rec(<<>>, <<>>, NO)>>,
   <<Rec(CY, <<>>, YES), Rec(<<>>, cy_, NO)>>}

\* fetch_info_records
InfoFetchFrom(F, maxRuns) ==
  /\ pc.info = "idle"
  /\ runs < maxRuns
  /\ runs' = runs + 1
  /\ records' \in F
  /\ Goto("info", "fetched")
  /\ Returns("info", "none")
  /\ UNCHANGED <<db, tx, txfail, lock, clock, strict, on_conflict_ok, use_legacy_upsert,
                 payload, retrieved_at, lastCommit, first_ever, first_since, mapping,
                 default_text, civil, counts, second, pull, csv_rows, users>>

InfoFetch(maxRuns) == InfoFetchFrom(InfoFeed, maxRuns)

\* load_info_into_sqlite up to the end of its loop
LoadBegin ==
  /\ pc.info = "fetched"
  /\ LET b == LoadInfoBody(db, records) IN Begin("info", b.db, b.failed)
  /\ counts' = [counts EXCEPT !.info_rows = Some(LoadInfoBody(db, records).rows)]
  /\ Goto("info", "load_tx")
  /\ UNCHANGED <<db, clock, strict, on_conflict_ok, use_legacy_upsert, payload, retrieved_at,
                 status, runs, lastCommit, first_ever, first_since, records, mapping,
                 default_text, civil, second, pull, csv_rows, users>>

LoadBusy ==
  /\ pc.info = "fetched"
  /\ Busy("info")
  /\ Goto("info", "idle")
  /\ Returns("info", "error")
  /\ records' = <<>>
  /\ UNCHANGED <<clock, strict, on_conflict_ok, use_legacy_upsert, payload, retrieved_at,
                 runs, first_ever, first_since, mapping, default_text, civil, counts, second, pull, csv_rows, users>>

LoadCommit ==
  /\ pc.info = "load_tx"
  /\ Commit("info", "load_info_into_sqlite")
  /\ Goto("info", "loaded")
  /\ records' = <<>>
  /\ UNCHANGED <<clock, strict, on_conflict_ok, use_legacy_upsert, payload, retrieved_at,
                 status, runs, first_ever, first_since, mapping, default_text, civil,
                 counts, second, pull, csv_rows, users>>

\* a handler that swallows the failure of the load and goes on to the rebuild
LoadRollbackGoesOn ==
  /\ pc.info = "load_tx"
  /\ Rollback("info")
  /\ Goto("info", "loaded")
  /\ records' = <<>>
  /\ UNCHANGED <<clock, strict, on_conflict_ok, use_legacy_upsert, payload, retrieved_at,
                 status, runs, first_ever, first_since, mapping, default_text, civil,
                 counts, second, pull, csv_rows, users>>

\* the INSERT raised: ROLLBACK, and the exception leaves the handler
LoadRollback ==
  /\ pc.info = "load_tx"
  /\ Rollback("info")
  /\ Goto("info", "idle")
  /\ Returns("info", "error")
  /\ records' = <<>>
  /\ counts' = NoCounts
  /\ UNCHANGED <<clock, strict, on_conflict_ok, use_legacy_upsert, payload, retrieved_at,
                 runs, first_ever, first_since, mapping, default_text, civil, second, pull, csv_rows, users>>

\* rebuild_join_table(conn)
RebuildTableBegin ==
  /\ pc.info = "loaded"
  /\ LET b == RebuildJoinTableBody(db) IN Begin("info", b.db, b.failed)
  /\ Goto("info", "rebuild_tx")
  /\ UNCHANGED <<db, clock, strict, on_conflict_ok, use_legacy_upsert, payload, retrieved_at,
                 status, runs, lastCommit, first_ever, first_since, others>>

RebuildTableBusy ==
  /\ pc.info = "loaded"
  /\ Busy("info")
  /\ Goto("info", "idle")
  /\ Returns("info", "error")
  /\ counts' = NoCounts
  /\ UNCHANGED <<clock, strict, on_conflict_ok, use_legacy_upsert, payload, retrieved_at,
                 runs, first_ever, first_since, records, mapping, default_text, civil,
                 second, pull, csv_rows, users>>

\* COMMIT of rebuild_join_table; loc is where the handler goes on
RebuildTableCommitTo(loc) ==
  /\ pc.info = "rebuild_tx"
  /\ Commit("info", "rebuild_join_table")
  /\ Goto("info", loc)
  /\ UNCHANGED <<clock, strict, on_conflict_ok, use_legacy_upsert, payload, retrieved_at,
                 status, runs, first_ever, first_since, others>>

\* the two COUNT queries that follow the COMMIT read the view and write nothing:
\* the specifications that do not look at the counts go on to the export
RebuildTableCommit == RebuildTableCommitTo("exporting")

\* total = SELECT COUNT(*) FROM carpark_availability_join: a statement of its own
\* on an autocommit connection, it reads the last committed state
CountTotal ==
  /\ pc.info = "rebuilt"
  /\ counts' = [counts EXCEPT !.total = Some(Cardinality(DOMAIN db.join))]
  /\ Goto("info", "counted_total")
  /\ UNCHANGED <<db, tx, txfail, lock, clock, strict, on_conflict_ok, use_legacy_upsert,
                 payload, retrieved_at, status, runs, lastCommit, first_ever, first_since,
                 records, mapping, default_text, civil, second, pull, csv_rows, users>>

\* unmatched = SELECT COUNT(*) FROM carpark_availability_join WHERE has_info = 0
CountUnmatched ==
  /\ pc.info = "counted_total"
  /\ counts' = [counts EXCEPT !.unmatched =
                  Some(Cardinality({k \in DOMAIN db.join : db.join[k].has_info = 0}))]
  /\ Goto("info", "exporting")
  /\ UNCHANGED <<db, tx, txfail, lock, clock, strict, on_conflict_ok, use_legacy_upsert,
                 payload, retrieved_at, status, runs, lastCommit, first_ever, first_since,
                 records, mapping, default_text, civil, second, pull, csv_rows, users>>

\* matched = total - unmatched
Matched(c) == c.total[1] - c.unmatched[1]

----------------------------------------------------------------------------
(* ingest_ev_locations.lambda_handler *)

L1 == <<"L", "1">>
L2 == <<"L", "2">>

\* NO_EV_TEXT, shortened
NO_EV_TEXT == <<"N", "o">>

\* the mappings _load_ev_mapping_csv returns, as the list of their items
EvMappings == {<<>>, <<Text(CY, L1)>>, <<Text(CY, L2), Text(B2, L1)>>}

\* the CSV is read, then _apply_ev_mapping up to the end of its loop
EvBeginFrom(mappings, defaults, maxRuns) ==
  /\ pc.ev = "idle"
  /\ runs < maxRuns
  /\ runs' = runs + 1
  /\ \E m \in mappings, text \in defaults :
       /\ mapping' = m
       /\ default_text' = text
       /\ Begin("ev", ApplyEvBody(db, m, text), FALSE)
  /\ Goto("ev", "ev_tx")
  /\ Returns("ev", "none")
  /\ UNCHANGED <<db, clock, strict, on_conflict_ok, use_legacy_upsert, payload, retrieved_at,
                 lastCommit, first_ever, first_since, records, civil, counts, second, pull, csv_rows, users>>

EvBegin(maxRuns) == EvBeginFrom(EvMappings, {NO_EV_TEXT}, maxRuns)

\* "database is locked" is caught by the handler, which returns statusCode 500
EvBusy(maxRuns) ==
  /\ pc.ev = "idle"
  /\ runs < maxRuns
  /\ runs' = runs + 1
  /\ Busy("ev")
  /\ Returns("ev", "error")
  /\ UNCHANGED <<pc, clock, strict, on_conflict_ok, use_legacy_upsert, payload, retrieved_at,
                 first_ever, first_since, others>>

EvCommit ==
  /\ pc.ev = "ev_tx"
  /\ Commit("ev", "_apply_ev_mapping")
  /\ Goto("ev", "exporting")
  /\ UNCHANGED <<clock, strict, on_conflict_ok, use_legacy_upsert, payload, retrieved_at,
                 status, runs, first_ever, first_since, others>>

----------------------------------------------------------------------------
(* Specifications *)

\* the handlers before any invocation: no transaction open, no local set
InitLocals ==
  /\ tx = EmptyDb
  /\ csv_rows = <<>>
  /\ users = NoUsers
  /\ txfail = FALSE
  /\ lock = "none"
  /\ pc = [d \in Drivers |-> "idle"]
  /\ clock = 0
  /\ strict \in BOOLEAN
  /\ on_conflict_ok \in BOOLEAN
  /\ use_legacy_upsert = FALSE
  /\ payload = <<>>
  /\ retrieved_at = 0
  /\ status = [d \in Drivers |-> "none"]
  /\ runs = 0
  /\ lastCommit = "none"
  /\ first_ever = EmptyTable
  /\ first_since = EmptyTable
  /\ records = <<>>
  /\ mapping = EmptyTable
  /\ default_text = <<>>
  /\ civil = <<0, 0, 0>>
  /\ counts = NoCounts
  /\ second = [payload |-> <<>>, retrieved_at |-> 0, use_legacy_upsert |-> FALSE]

\* the tables as ensure_schema leaves a new store
InitHandlers == db = EmptyDb /\ InitLocals

\* the store and the handlers as above, before any pull of the registry is looked at
InitStore == InitHandlers /\ pull = NoPull

\* the availability driver alone, on the feed AvailFeed
AvailFetch == FetchFrom(AvailFeed, MaxCycles, MaxClock)

NextAvail ==
  \/ AvailFetch
  \/ FetchError
  \/ UpsertBegin
  \/ UpsertCommit
  \/ UpsertRollback
  \/ RebuildSnapshotBegin("avail")
  \/ RebuildSnapshotCommit("avail")
  \/ ReturnOk("avail")
  \/ ExportError("avail")

SpecAvail == InitStore /\ [][NextAvail]_vars

\* the availability driver alone, on the feed TotalsFeed
TotalsFetch == FetchFrom(TotalsFeed, MaxTotalsCycles, MaxClock)

NextTotals ==
  \/ TotalsFetch
  \/ FetchError
  \/ UpsertBegin
  \/ UpsertCommit
  \/ UpsertRollback
  \/ RebuildSnapshotBegin("avail")
  \/ RebuildSnapshotCommit("avail")
  \/ ReturnOk("avail")
  \/ ExportError("avail")

SpecTotals == InitStore /\ [][NextTotals]_vars

----------------------------------------------------------------------------
(* The four drivers together on one store *)

\* feed of the whole system: a central facility under two spellings of its id and
\* a facility outside the central area, alone, together, and with a malformed count
MainFeed ==
  {<<>>,
   <<Carpark(cy_, "t1", <<Info("C", "1", Absent)>>)>>,
   <<Carpark(CY, "t1", <<Info("C", "1", Absent)>>), Carpark(B2, "t1", <<Info("C", "1", Absent)>>)>>,
   <<Carpark(CY, "t1", <<Info("C", "1", Absent)>>), Carpark(B2, "t1", <<Info("C", "x", Absent)>>)>>}

\* in the whole system a cycle follows the last one by one tick
MainFetch == FetchFrom(MainFeed, MaxRuns, 1)

Next ==
  \/ MainFetch
  \/ UpsertBegin
  \/ UpsertBusy
  \/ UpsertCommit
  \/ UpsertRollback
  \/ \E d \in {"avail", "rates"} :
       \/ RebuildSnapshotBegin(d)
       \/ RebuildSnapshotBusy(d)
       \/ RebuildSnapshotCommit(d)
  \/ \E d \in Drivers : ReturnOk(d)
  \/ MarkBegin(MaxRuns)
  \/ MarkBusy(MaxRuns)
  \/ MarkCommit
  \/ RefreshBegin
  \/ RefreshBusy
  \/ RefreshCommit
  \/ InfoFetch(MaxRuns)
  \/ LoadBegin
  \/ LoadBusy
  \/ LoadCommit
  \/ LoadRollback
  \/ RebuildTableBegin
  \/ RebuildTableBusy
  \/ RebuildTableCommit
  \/ EvBegin(MaxRuns)
  \/ EvBusy(MaxRuns)
  \/ EvCommit

\* on an SQLite that has ON CONFLICT .. DO UPDATE
Init == InitStore /\ on_conflict_ok

Spec == Init /\ [][Next]_vars

----------------------------------------------------------------------------
(* Claims on the snapshot store and the history *)

\* C1 as stated: for every stored key, total_lots is the first non-null
\* total_lots ever supplied for that key (null when none was)
C1_FirstEverSupplied ==
  \A k \in DOMAIN db.avail : k \in DOMAIN first_ever /\ db.avail[k].total_lots = first_ever[k]

\* C1 as amended: for every stored key, total_lots is the first non-null
\* total_lots supplied since the row was last created, whatever came later
C1_FirstSinceCreated ==
  \A k \in DOMAIN db.avail : k \in DOMAIN first_since /\ db.avail[k].total_lots = first_since[k]

\* a row re-created after an eviction keeps its new first value although the
\* batch that just committed supplied another one after it
C1_Witness ==
  /\ pc.avail = "upserted"
  /\ \E k \in DOMAIN db.avail :
       /\ db.avail[k].total_lots # None
       /\ first_ever[k] # db.avail[k].total_lots
       /\ \E i \in 1..Len(Observations(payload, 1)) :
            LET o == Observations(payload, 1)[i]
            IN ObsKey(o) = k /\ ParseTotal(o.info.total_lots) # db.avail[k].total_lots

\* C2: right after a batch commits, every key of the batch holds the
\* lots_available, update_datetime and last_seen_at of its last observation
C2_Overwritten ==
  pc.avail = "upserted" =>
    LET obs == Observations(payload, 1)
    IN \A i \in 1..Len(obs) :
         (\A j \in (i + 1)..Len(obs) : ObsKey(obs[j]) # ObsKey(obs[i])) =>
           /\ ObsKey(obs[i]) \in DOMAIN db.avail
           /\ db.avail[ObsKey(obs[i])].lots_available = LotsAvail(obs[i].info)
           /\ db.avail[ObsKey(obs[i])].update_datetime = UpdOf(obs[i].cp)
           /\ db.avail[ObsKey(obs[i])].last_seen_at = retrieved_at

\* a batch with the same key twice, with different counts and update times,
\* committed over a row of an earlier cycle
C2_Witness ==
  /\ pc.avail = "upserted"
  /\ Len(payload) = 2
  /\ payload[1].carpark_number = payload[2].carpark_number
  /\ UpdOf(payload[1]) # UpdOf(payload[2])
  /\ LotsAvail(payload[1].carpark_info[1]) # LotsAvail(payload[2].carpark_info[1])
  /\ \E i \in 1..Len(db.hist) :
       /\ db.hist[i].carpark_number = payload[1].carpark_number
       /\ db.hist[i].retrieved_at < retrieved_at

\* C3: the history never holds two rows with the same
\* (carpark_number, lot_type, update_datetime), a null update_datetime included
C3_HistoryUnique ==
  \A i, j \in 1..Len(db.hist) :
    i # j =>
      ~ /\ db.hist[i].carpark_number = db.hist[j].carpark_number
        /\ db.hist[i].lot_type = db.hist[j].lot_type
        /\ db.hist[i].update_datetime = db.hist[j].update_datetime

\* every observation of the batch is in the snapshot with this cycle's
\* last_seen_at and in the history, and the eviction has run
BatchApplied(d, carparks, seen) ==
  LET obs == Observations(carparks, 1)
  IN /\ \A i \in 1..Len(obs) :
          /\ ObsKey(obs[i]) \in DOMAIN d.avail
          /\ d.avail[ObsKey(obs[i])].last_seen_at = seen
          /\ \E h \in 1..Len(d.hist) :
               /\ d.hist[h].carpark_number = obs[i].cp.carpark_number
               /\ d.hist[h].lot_type = obs[i].info.lot_type
               /\ d.hist[h].update_datetime = UpdOf(obs[i].cp)
     /\ strict => \A k \in DOMAIN d.avail : d.avail[k].last_seen_at >= seen

\* C4: a batch with a failing observation never changes the committed snapshot or
\* history, and whenever they change a whole batch has been applied at once
C4_AllOrNothing ==
  [][/\ (pc.avail \in {"stamped", "upsert_tx"} /\ BatchFails(payload)) => db' = db
     /\ (db'.avail # db.avail \/ db'.hist # db.hist) =>
          /\ pc.avail = "upsert_tx"
          /\ pc'.avail = "upserted"
          /\ BatchApplied(db', payload, retrieved_at)]_vars

\* the working copy holds the first observation of a batch whose second one
\* failed, just before the rollback
C4_Witness ==
  /\ pc.avail = "upsert_tx"
  /\ txfail
  /\ tx.avail # db.avail
  /\ tx.hist # db.hist

\* C5: right after a strict-mirror batch commits, every snapshot row has this
\* cycle's last_seen_at and every key that the batch did not observe is gone
C5_StrictMirror ==
  (strict /\ pc.avail = "upserted") =>
    \A k \in DOMAIN db.avail :
      /\ db.avail[k].last_seen_at = retrieved_at
      /\ k \in ObsKeys(payload)

----------------------------------------------------------------------------
(* Claims on the eviction policy and the joined view *)

\* C6: a key leaves the snapshot store only in the commit of an availability
\* batch under the strict-mirror policy; with the policy disabled and in every
\* step of the pricing, metadata, annotation and rebuild operations the key set
\* keeps all its members
C6_EvictionGated ==
  [][(\E k \in DOMAIN db.avail : k \notin DOMAIN db'.avail) =>
       (strict /\ pc.avail = "upsert_tx" /\ pc'.avail = "upserted")]_vars

\* with the policy disabled a batch has committed that did not re-observe a
\* stored key, which is still there, and another driver has run to its end
C6_Witness ==
  /\ ~strict
  /\ pc.avail = "upserted"
  /\ \E k \in DOMAIN db.avail : k \notin ObsKeys(payload)
  /\ \E d \in {"rates", "info", "ev"} : status[d] = "ok"

\* the rebuild transactions of the three drivers that rebuild the view
RebuildCommits == {"rebuild_join_snapshot", "rebuild_join_table"}

\* C7: whenever a rebuild by the availability, pricing or metadata driver is
\* about to commit, every facility with a non-blank annotation in the view before
\* the rebuild has that annotation on all its rows of the rebuilt view
C7_AnnotationKept ==
  \A d \in {"avail", "rates", "info"} :
    (pc[d] = "rebuild_tx" /\ ~txfail) =>
      \A k \in DOMAIN db.join :
        ~IsBlank(db.join[k].ev_lot_location) =>
          \A k2 \in DOMAIN tx.join :
            k2[1] = k[1] => tx.join[k2].ev_lot_location = db.join[k].ev_lot_location

\* C8: right after a rebuild commits, a row of the view has has_info = 1 when
\* carpark_info holds the uppercased, trimmed carpark_number of the row, and
\* has_info = 0 when it does not
C8_HasInfoIffMatch ==
  lastCommit \in RebuildCommits =>
    \A k \in DOMAIN db.join :
      db.join[k].has_info = (IF UpperTrim(k[1]) \in DOMAIN db.info THEN 1 ELSE 0)

\* the metadata driver has rebuilt a view with a row matched only through the
\* normalisation of its id and a row without a match
C8_Witness ==
  /\ lastCommit = "rebuild_join_table"
  /\ \E k \in DOMAIN db.join :
       k[1] \notin DOMAIN db.info /\ UpperTrim(k[1]) \in DOMAIN db.info
  /\ \E k \in DOMAIN db.join : UpperTrim(k[1]) \notin DOMAIN db.info

\* C9: a rebuild never fails on a duplicate key, and right after it commits the
\* keys of the view are exactly the keys of the snapshot store
C9_ViewKeysAreSnapshotKeys ==
  /\ lastCommit \in RebuildCommits => DOMAIN db.join = DOMAIN db.avail
  /\ \A d \in {"avail", "rates", "info"} :
       pc[d] = "rebuild_tx" => ~txfail /\ DOMAIN tx.join = DOMAIN tx.avail

\* a rebuild has committed a view of a matched and an unmatched row over a view
\* with other keys
C9_Witness ==
  /\ lastCommit \in RebuildCommits
  /\ \E k1, k2 \in DOMAIN db.join : db.join[k1].has_info = 1 /\ db.join[k2].has_info = 0
  /\ \E d \in {"avail", "rates", "info"} : pc[d] = "exporting"

\* C10: a rebuild_join_snapshot that follows another one with no commit in
\* between leaves the view as it found it, and so does a second run on what
\* any rebuild_join_snapshot is about to commit, annotations included
C10_RebuildIdempotent ==
  \A d \in {"avail", "rates"} :
    pc[d] = "rebuild_tx" =>
      /\ lastCommit = "rebuild_join_snapshot" => tx.join = db.join
      /\ LET again == RebuildJoinSnapshotBody(tx)
         IN ~again.failed /\ again.db.join = tx.join

\* a rebuild is about to commit a view of two facilities with different
\* annotations, one with metadata and one without
C10_Witness ==
  /\ \E d \in {"avail", "rates"} : pc[d] = "rebuild_tx"
  /\ \E k1, k2 \in DOMAIN tx.join :
       /\ ~IsBlank(tx.join[k1].ev_lot_location)
       /\ ~IsBlank(tx.join[k2].ev_lot_location)
       /\ tx.join[k1].ev_lot_location # tx.join[k2].ev_lot_location
       /\ tx.join[k1].has_info # tx.join[k2].has_info

----------------------------------------------------------------------------
(* The rebuilds statement by statement, and what a reader sees meanwhile *)

\* a reader that sees the working copy of an open transaction
ReaderSeesUncommitted == IF lock = "none" THEN db.join ELSE tx.join

\* SELECT .. FROM carpark_availability_join on another connection: in WAL mode a
\* statement reads the last committed state
ReaderSees == db.join

\* BEGIN IMMEDIATE, the cache is filled, DELETE FROM carpark_availability_join
RebuildSnapshotDelete(d) ==
  /\ pc[d] = BeforeRebuild(d)
  /\ Begin(d, [db EXCEPT !.join = EmptyTable], FALSE)
  /\ Goto(d, "rebuild_deleted")
  /\ payload' = IF d = "avail" THEN <<>> ELSE payload
  /\ UNCHANGED <<db, clock, strict, on_conflict_ok, use_legacy_upsert, retrieved_at,
                 status, runs, lastCommit, first_ever, first_since, others>>

\* INSERT INTO carpark_availability_join .. SELECT .. LEFT JOIN
RebuildSnapshotInsert(d) ==
  /\ pc[d] = "rebuild_deleted"
  /\ lock = d
  /\ LET rows == {SnapshotSelect(r) : r \in LeftJoin(tx.avail, tx.info)}
     IN /\ txfail' = PkViolation(rows)
        /\ tx' = IF PkViolation(rows) THEN tx ELSE [tx EXCEPT !.join = InsertAll(rows)]
  /\ Goto(d, "rebuild_inserted")
  /\ UNCHANGED <<db, lock, clock, strict, on_conflict_ok, use_legacy_upsert, payload,
                 retrieved_at, status, runs, lastCommit, first_ever, first_since, others>>

\* UPDATE carpark_availability_join SET ev_lot_location = COALESCE(.., ev_lot_location);
\* the cache was filled from the view as it was at BEGIN, which is still db.join
RebuildSnapshotRestore(d) ==
  /\ pc[d] = "rebuild_inserted"
  /\ lock = d
  /\ ~txfail
  /\ tx' = [tx EXCEPT !.join = RestoreEv(tx.join, EvCache(db.join))]
  /\ Goto(d, "rebuild_tx")
  /\ UNCHANGED <<db, txfail, lock, clock, strict, on_conflict_ok, use_legacy_upsert, payload,
                 retrieved_at, status, runs, lastCommit, first_ever, first_since, others>>

\* rebuild_join_table: BEGIN IMMEDIATE, DELETE FROM carpark_availability_join
RebuildTableDelete ==
  /\ pc.info = "loaded"
  /\ Begin("info", [db EXCEPT !.join = EmptyTable], FALSE)
  /\ Goto("info", "rebuild_deleted")
  /\ UNCHANGED <<db, clock, strict, on_conflict_ok, use_legacy_upsert, payload, retrieved_at,
                 status, runs, lastCommit, first_ever, first_since, others>>

\* rebuild_join_table: INSERT INTO carpark_availability_join .. SELECT .. LEFT JOIN
RebuildTableInsert ==
  /\ pc.info = "rebuild_deleted"
  /\ lock = "info"
  /\ LET rows == {TableSelect(r) : r \in LeftJoin(tx.avail, tx.info)}
     IN /\ txfail' = PkViolation(rows)
        /\ tx' = IF PkViolation(rows) THEN tx ELSE [tx EXCEPT !.join = InsertAll(rows)]
  /\ Goto("info", "rebuild_tx")
  /\ UNCHANGED <<db, lock, clock, strict, on_conflict_ok, use_legacy_upsert, payload,
                 retrieved_at, status, runs, lastCommit, first_ever, first_since, others>>

ReaderFetch == FetchFrom(MainFeed, MaxRuns, 1)

\* the availability, metadata and annotation drivers with their rebuilds statement
\* by statement; a driver that finds the store locked waits
NextReader ==
  \/ ReaderFetch
  \/ UpsertBegin
  \/ UpsertCommit
  \/ UpsertRollback
  \/ RebuildSnapshotDelete("avail")
  \/ RebuildSnapshotInsert("avail")
  \/ RebuildSnapshotRestore("avail")
  \/ RebuildSnapshotCommit("avail")
  \/ InfoFetch(MaxRuns)
  \/ LoadBegin
  \/ LoadCommit
  \/ LoadRollback
  \/ RebuildTableDelete
  \/ RebuildTableInsert
  \/ RebuildTableCommit
  \/ EvBegin(MaxRuns)
  \/ EvCommit
  \/ \E d \in {"avail", "info", "ev"} : ReturnOk(d)

SpecReader == Init /\ [][NextReader]_vars

\* C11: what a reader sees of the view changes only in the COMMIT of a whole
\* transaction, to the result of all its statements: never to the emptied view
\* of a rebuild, nor to its reinserted rows before the annotations are restored
C11_ReaderSeesWholeViews ==
  [][ReaderSees' # ReaderSees =>
       \/ /\ pc.avail = "rebuild_tx" /\ pc'.avail = "exporting"
          /\ ReaderSees' = RebuildJoinSnapshotBody(db).db.join
       \/ /\ pc.info = "rebuild_tx" /\ pc'.info = "exporting"
          /\ ReaderSees' = RebuildJoinTableBody(db).db.join
       \/ /\ pc.ev = "ev_tx" /\ pc'.ev = "exporting"
          /\ ReaderSees' = ApplyEvBody(db, mapping, default_text).join]_vars

\* a rebuild has reinserted a row and not yet restored its annotation, which the
\* committed view carries
C11_Witness ==
  /\ pc.avail = "rebuild_inserted"
  /\ \E k \in DOMAIN tx.join :
       /\ k \in DOMAIN db.join
       /\ tx.join[k].ev_lot_location = None
       /\ ~IsBlank(db.join[k].ev_lot_location)

----------------------------------------------------------------------------
(* Claims on the drivers *)

\* the view has the keys of the snapshot store and its three columns of each row
ViewReflects(join, avail) ==
  /\ DOMAIN join = DOMAIN avail
  /\ \A k \in DOMAIN avail :
       /\ join[k].lots_available = avail[k].lots_available
       /\ join[k].total_lots = avail[k].total_lots
       /\ join[k].update_datetime = avail[k].update_datetime

\* C12: from the commit of its rebuild on, through its success report and until
\* the next cycle starts, the view reflects the snapshot the availability cycle
\* committed; a cycle whose rebuild failed reports no success
C12_SuccessAfterRebuild ==
  (pc.avail = "exporting" \/ status.avail = "ok") => ViewReflects(db.join, db.avail)

\* a cycle has reported success on a snapshot that differs from the view it
\* found, after the metadata driver rebuilt the view in between
C12_Witness ==
  /\ status.avail = "ok"
  /\ pc.avail = "idle"
  /\ db.avail # EmptyTable
  /\ lastCommit = "rebuild_join_table"

\* the pricing columns of a row of carpark_info
Pricing(row) ==
  <<row.is_central, row.carpark_rate, row.current_rate_30min, row.active_cap_type,
    row.active_cap_amount, row.rate_updated_at>>

\* C13: whenever load_info_into_sqlite is about to commit, every facility that is
\* in carpark_info before and after has the pricing columns it had before
C13_PricingKeptByLoad ==
  (pc.info = "load_tx" /\ ~txfail) =>
    \A cp \in DOMAIN db.info \cap DOMAIN tx.info :
      Pricing(tx.info[cp]) = Pricing(db.info[cp])

----------------------------------------------------------------------------
(* The pricing passes at every civil time *)

\* every weekday (Monday is 0) and hour, and the minutes around the half hour
AllCivilTimes == {<<wk, hh, mm>> : wk \in 0..6, hh \in 0..23, mm \in {0, 29, 30, 59}}

\* registry records of a central and an outlying facility, with and without night
\* parking, spelled as the registry does and in lower case with padding
PricingInfoFeed ==
  {<<Rec(CY, <<>>, YES), Rec(B2, <<>>, NO)>>,
   <<Rec(CY, <<>>, NO), Rec(B2, <<>>, <<" ", "y", "e", "s">>)>>}

PricingInfoFetch == InfoFetchFrom(PricingInfoFeed, MaxPricingRuns)

RefreshAnyTime == RefreshBeginAt(AllCivilTimes)

\* the metadata and the pricing driver; a driver that finds the store locked waits
NextPricing ==
  \/ PricingInfoFetch
  \/ LoadBegin
  \/ LoadCommit
  \/ RebuildTableBegin
  \/ RebuildTableCommit
  \/ MarkBegin(MaxPricingRuns)
  \/ MarkCommit
  \/ RefreshAnyTime
  \/ RefreshCommit
  \/ RebuildSnapshotBegin("rates")
  \/ RebuildSnapshotCommit("rates")
  \/ \E d \in {"info", "rates"} : ReturnOk(d)

SpecPricing == Init /\ [][NextPricing]_vars

\* the time-window pass has just committed, and its reading of the clock is known
JustRefreshed ==
  lastCommit = "refresh_time_dependent_rates" /\ pc.rates \in {"refreshed", "rebuild_tx"}

\* C14: right after a time-window pass commits, at every weekday, hour and minute,
\* current_rate_30min of every facility is 1.2 when its is_central is 1, the day is
\* Monday to Saturday and the hour is 7 to 16, and 0.6 otherwise
C14_CurrentRate ==
  JustRefreshed =>
    \A cp \in DOMAIN db.info :
      db.info[cp].current_rate_30min =
        Some(IF /\ db.info[cp].is_central = Some(1)
                /\ civil[1] \in 0..5
                /\ civil[2] \in 7..16
             THEN 12 ELSE 6)

\* a pass on Saturday at 16:59 has priced a central facility at 1.2 and another
\* facility at 0.6
C14_Witness ==
  /\ JustRefreshed
  /\ civil = <<5, 16, 59>>
  /\ \E cp \in DOMAIN db.info : db.info[cp].current_rate_30min = Some(12)
  /\ \E cp \in DOMAIN db.info : db.info[cp].current_rate_30min = Some(6)

\* minutes since midnight of the pass
MinuteOfDay == civil[2] * 60 + civil[3]

\* C15: right after a time-window pass commits, the cap of every facility is
\* (NPS_NIGHT_CAP, 5.0) when it has night parking and the time is in 22:30-07:00,
\* otherwise (DAY_CAP, 20.0 when central, else 12.0) when the time is in
\* 07:00-22:30, otherwise null and null
C15_Caps ==
  JustRefreshed =>
    \A cp \in DOMAIN db.info :
      <<db.info[cp].active_cap_type, db.info[cp].active_cap_amount>> =
        IF Nps(db.info[cp].night_parking) /\ (MinuteOfDay >= 1350 \/ MinuteOfDay < 420)
        THEN <<Some("NPS_NIGHT_CAP"), Some(50)>>
        ELSE IF MinuteOfDay >= 420 /\ MinuteOfDay < 1350
        THEN <<Some("DAY_CAP"), Some(IF db.info[cp].is_central = Some(1) THEN 200 ELSE 120)>>
        ELSE <<None, None>>

\* a pass at 22:30 has given the night cap to a facility with night parking,
\* written in lower case, and no cap to a facility without
C15_Witness ==
  /\ JustRefreshed
  /\ civil[2] = 22 /\ civil[3] = 30
  /\ \E cp \in DOMAIN db.info :
       /\ db.info[cp].night_parking # Some(YES)
       /\ db.info[cp].active_cap_type = Some("NPS_NIGHT_CAP")
  /\ \E cp \in DOMAIN db.info : db.info[cp].active_cap_type = None

----------------------------------------------------------------------------
(* Claims on the pricing passes among the other drivers *)

\* C16: no row of the view has a base rate of a classification pass without the
\* current rate of the time-window pass that belongs to it, or the reverse
C16_NoHalfEpoch ==
  \A k \in DOMAIN db.join :
    (db.join[k].carpark_rate = None) <=> (db.join[k].current_rate_30min = None)

\* C17: right after a classification pass commits, every facility has
\* is_central = 1 when its id is in the list and 0 when not, and carpark_rate 1.2
\* when central and 0.6 when not, whatever the clock shows; a second pass on
\* the result of a pass changes nothing
C17_Classification ==
  /\ lastCommit = "mark_central_and_base_rates" =>
       /\ \A cp \in DOMAIN db.info :
            /\ db.info[cp].is_central = Some(IF cp \in CENTRAL THEN 1 ELSE 0)
            /\ db.info[cp].carpark_rate = Some(IF cp \in CENTRAL THEN 12 ELSE 6)
       /\ MarkBody(db) = db
  /\ pc.rates = "mark_tx" => MarkBody(tx) = tx

\* a classification pass has committed on a facility outside the list that an
\* earlier pricing run had priced
C17_Witness ==
  /\ lastCommit = "mark_central_and_base_rates"
  /\ \E cp \in DOMAIN db.info :
       /\ cp \notin CENTRAL
       /\ db.info[cp].rate_updated_at # None

----------------------------------------------------------------------------
(* The annotation merge on views of several facilities *)

\* feed: a facility whose id needs the normalisation, with and without the same
\* facility under its plain id, and a second facility
MergeFeed ==
  {<<Carpark(cy_, "t1", <<Info("C", "1", Absent)>>),
     Carpark(B2, "t1", <<Info("C", "1", Absent)>>)>>,
   <<Carpark(CY, "t1", <<Info("C", "1", Absent)>>),
     Carpark(cy_, "t1", <<Info("C", "1", Absent)>>),
     Carpark(B2, "t1", <<Info("C", "1", Absent)>>)>>}

\* mappings with no, one and two entries, on present and absent ids
MergeMappings ==
  {<<>>, <<Text(CY, L1)>>, <<Text(B2, L2)>>, <<Text(CY, L2), Text(B2, L1)>>,
   <<Text(<<"S", "5">>, L1)>>}

\* default_text of the event: NO_EV_TEXT, or a text of one space
MergeDefaults == {NO_EV_TEXT, <<" ">>}

MergeFetch == FetchFrom(MergeFeed, MaxMergeRuns, 1)

MergeBegin == EvBeginFrom(MergeMappings, MergeDefaults, MaxMergeRuns)

\* the availability and the annotation driver; a driver that finds the store
\* locked waits
NextMerge ==
  \/ MergeFetch
  \/ UpsertBegin
  \/ UpsertCommit
  \/ RebuildSnapshotBegin("avail")
  \/ RebuildSnapshotCommit("avail")
  \/ MergeBegin
  \/ EvCommit
  \/ \E d \in {"avail", "ev"} : ReturnOk(d)

SpecMerge == Init /\ [][NextMerge]_vars

----------------------------------------------------------------------------
(* Claims on the annotation merge *)

\* the keys of a mapping given as the list of its items
MappingKeys(entries) == {entries[i][1] : i \in 1..Len(entries)}

\* the text a mapping gives to a key
MappedText(entries, cp_no) ==
  (CHOOSE e \in {entries[i] : i \in 1..Len(entries)} : e[1] = cp_no)[2]

\* C18: when _apply_ev_mapping is about to commit, a row whose uppercased,
\* trimmed carpark_number is a key of the mapping has the mapped text; any other
\* row has default_text when its ev_lot_location was null or blank and its old
\* value when not; the rows, their other columns and the other tables are as before
C18_MergeResult ==
  pc.ev = "ev_tx" =>
    /\ DOMAIN tx.join = DOMAIN db.join
    /\ \A k \in DOMAIN db.join :
         /\ tx.join[k].ev_lot_location =
              IF UpperTrim(k[1]) \in MappingKeys(mapping)
              THEN Some(MappedText(mapping, UpperTrim(k[1])))
              ELSE IF IsBlank(db.join[k].ev_lot_location) THEN Some(default_text)
              ELSE db.join[k].ev_lot_location
         /\ [tx.join[k] EXCEPT !.ev_lot_location = db.join[k].ev_lot_location] = db.join[k]
    /\ tx.avail = db.avail /\ tx.hist = db.hist /\ tx.info = db.info

\* a merge is about to commit that overwrote an annotation of a row matched only
\* through the normalisation of its id, and kept the annotation of a row whose id
\* is not in the mapping
C18_Witness ==
  /\ pc.ev = "ev_tx"
  /\ \E k \in DOMAIN db.join :
       /\ k[1] \notin MappingKeys(mapping)
       /\ UpperTrim(k[1]) \in MappingKeys(mapping)
       /\ ~IsBlank(db.join[k].ev_lot_location)
       /\ tx.join[k].ev_lot_location # db.join[k].ev_lot_location
  /\ \E k \in DOMAIN db.join :
       /\ UpperTrim(k[1]) \notin MappingKeys(mapping)
       /\ ~IsBlank(db.join[k].ev_lot_location)

\* the lists with the items of a list in every order
Orders(entries) ==
  {[i \in 1..Len(entries) |-> entries[f[i]]] :
     f \in {g \in [1..Len(entries) -> 1..Len(entries)] :
              \A i, j \in 1..Len(entries) : g[i] = g[j] => i = j}}

\* C19: when _apply_ev_mapping is about to commit, applying the same mapping and
\* default once more leaves its result as it is, and applying the entries of the
\* mapping in any other order to the view it started from gives the same result
C19_MergeIdempotentAnyOrder ==
  pc.ev = "ev_tx" =>
    /\ ApplyEvBody(tx, mapping, default_text) = tx
    /\ \A o \in Orders(mapping) : ApplyEvBody(db, o, default_text) = tx

\* a merge of two entries is about to commit, each of which changed a row, on a
\* view that has a facility under two spellings of its id
C19_Witness ==
  /\ pc.ev = "ev_tx"
  /\ Len(mapping) = 2
  /\ \A i \in 1..2 :
       \E k \in DOMAIN db.join :
         /\ UpperTrim(k[1]) = mapping[i][1]
         /\ tx.join[k].ev_lot_location # db.join[k].ev_lot_location
  /\ \E k1, k2 \in DOMAIN db.join : k1 # k2 /\ UpperTrim(k1[1]) = UpperTrim(k2[1])

\* the merge that committed last ran with the default of the merge that is open
SameDefault ==
  \A k \in DOMAIN db.join :
    IsBlank(db.join[k].ev_lot_location) => db.join[k].ev_lot_location = Some(default_text)

\* C20: a merge with an empty mapping that runs right after a merge with the same
\* default committed leaves every ev_lot_location as it is, and so would a merge
\* with an empty mapping and the same default on what any merge is about to
\* commit; no ev_lot_location is blank there when the default is not
C20_EmptyRerunKeeps ==
  pc.ev = "ev_tx" =>
    /\ (lastCommit = "_apply_ev_mapping" /\ mapping = <<>> /\ SameDefault) =>
         tx.join = db.join
    /\ ~IsBlank(Some(default_text)) =>
         \A k \in DOMAIN tx.join : ~IsBlank(tx.join[k].ev_lot_location)
    /\ ApplyEvBody(tx, <<>>, default_text) = tx

\* a merge with an empty mapping is about to commit right after a merge that set
\* a mapped text on one row and the default on another
C20_Witness ==
  /\ pc.ev = "ev_tx"
  /\ lastCommit = "_apply_ev_mapping"
  /\ mapping = <<>>
  /\ \E k1, k2 \in DOMAIN db.join :
       /\ db.join[k1].ev_lot_location = Some(default_text)
       /\ db.join[k2].ev_lot_location \notin {None, Some(default_text)}

----------------------------------------------------------------------------
(* The counts of rebuild_join_table next to an availability cycle *)

CountsFetch == FetchFrom(MainFeed, MaxRuns, 1)

\* the metadata driver with its two COUNT queries and the availability driver; a
\* driver that finds the store locked waits
NextCounts ==
  \/ CountsFetch
  \/ UpsertBegin
  \/ UpsertCommit
  \/ UpsertRollback
  \/ RebuildSnapshotBegin("avail")
  \/ RebuildSnapshotCommit("avail")
  \/ InfoFetch(MaxRuns)
  \/ LoadBegin
  \/ LoadCommit
  \/ LoadRollback
  \/ RebuildTableBegin
  \/ RebuildTableCommitTo("rebuilt")
  \/ CountTotal
  \/ CountUnmatched
  \/ \E d \in {"avail", "info"} : ReturnOk(d)

SpecCounts == Init /\ [][NextCounts]_vars

\* the rows of the view whose uppercased, trimmed carpark_number is not in carpark_info
Unmatched(d) == {k \in DOMAIN d.join : UpperTrim(k[1]) \notin DOMAIN d.info}

\* C21: when rebuild_join_table has read its second count, total is the number
\* of rows of the view, unmatched the number of its rows without a hit in
\* carpark_info, and matched + unmatched = total with matched not negative
C21_CountsOfOneView ==
  [][(pc.info = "counted_total" /\ pc'.info = "exporting") =>
       /\ counts'.total = Some(Cardinality(DOMAIN db.join))
       /\ counts'.unmatched = Some(Cardinality(Unmatched(db)))
       /\ Matched(counts') + counts'.unmatched[1] = counts'.total[1]
       /\ Matched(counts') >= 0]_vars

----------------------------------------------------------------------------
(* Claims on failing cycles *)

\* C22: the step in which the pull of the feed fails changes no table, opens no
\* transaction, starts no cycle and leaves the driver where it was, idle; and as
\* long as that failure is what the driver reported last, it is idle: nothing of
\* the cycle, the rebuild included, runs after the failure
C22_FetchFailureAborts ==
  [][/\ (status'.avail = "fetch_error" /\ status.avail # "fetch_error") =>
          /\ db' = db /\ tx' = tx /\ lock' = lock /\ lastCommit' = lastCommit
          /\ pc' = pc /\ runs' = runs /\ payload' = payload /\ clock' = clock
     /\ status'.avail = "fetch_error" => pc'.avail = "idle"]_vars

\* the pull failed on a store that holds the rows of an earlier cycle
C22_Witness ==
  /\ status.avail = "fetch_error"
  /\ db.avail # EmptyTable
  /\ db.hist # <<>>
  /\ db.join # EmptyTable

\* the positions of a driver at which no transaction of its running cycle has
\* committed yet
BeforeFirstCommit(d) ==
  CASE d \in {"avail", "avail2"} -> {"idle", "stamped", "upsert_tx"}
    [] d = "rates" -> {"idle", "mark_tx"}
    [] d = "info" -> {"idle", "fetched", "load_tx"}
    [] d = "ev" -> {"idle", "ev_tx"}

\* C23: a cycle of a driver ends in failure only from a position at which none
\* of its transactions has committed, so that a failed cycle leaves the stores
\* as it found them: never from behind its committed batch, classification pass
\* or metadata replace
C23_FailedCycleLeavesNothing ==
  [][\A d \in Drivers :
       (status'[d] = "error" /\ pc'[d] = "idle") => pc[d] \in BeforeFirstCommit(d)]_vars

----------------------------------------------------------------------------
(* Claims on the identifiers and on the owners of the tables *)

\* an id as UPPER(TRIM(..)) leaves it
Normalized(id) == UpperTrim(id) = id

\* C24: every carpark_number in the snapshot store, the history, carpark_info
\* and the view is uppercased and trimmed, and no two rows of the snapshot store
\* have ids of the same facility and the same lot_type
C24_IdsNormalized ==
  /\ \A k \in DOMAIN db.avail : Normalized(k[1])
  /\ \A i \in 1..Len(db.hist) : Normalized(db.hist[i].carpark_number)
  /\ \A cp \in DOMAIN db.info : Normalized(cp)
  /\ \A k \in DOMAIN db.join : Normalized(k[1])
  /\ \A k1, k2 \in DOMAIN db.avail :
       (UpperTrim(k1[1]) = UpperTrim(k2[1]) /\ k1[2] = k2[2]) => k1 = k2

\* C25: carpark_availability and its history change only in the COMMIT of an
\* availability batch; the working copy of every other transaction (pricing
\* passes, metadata replace, annotation merge, both rebuilds) has them as
\* committed, and the annotation merge has carpark_info as committed too
C25_Ownership ==
  [][/\ (db'.avail # db.avail \/ db'.hist # db.hist) =>
          (pc.avail = "upsert_tx" /\ pc'.avail = "upserted")
     /\ \A d \in Drivers :
          (lock' = d /\ pc'[d] # "upsert_tx") =>
            (tx'.avail = db'.avail /\ tx'.hist = db'.hist)
     /\ lock' = "ev" => tx'.info = db'.info
     /\ (pc.ev = "ev_tx" /\ pc'.ev = "exporting") => db'.info = db.info]_vars

\* the annotation merge has committed on a store with snapshot rows, history,
\* metadata and a view, after the metadata driver rebuilt the view
C25_Witness ==
  /\ lastCommit = "_apply_ev_mapping"
  /\ status.info = "ok"
  /\ db.avail # EmptyTable
  /\ db.hist # <<>>
  /\ db.info # EmptyTable
  /\ db.join # EmptyTable

----------------------------------------------------------------------------
(* Two invocations of the availability driver at once *)

\* feed: observations of one key with different counts and totals, at the same
\* and at another update time, and a batch on the same key whose second
\* observation is malformed
ConcurrentFeed ==
  {<<Carpark(CY, "t1", <<Info("C", "1", "5")>>)>>,
   <<Carpark(CY, "t1", <<Info("C", "2", "7")>>)>>,
   <<Carpark(CY, "t2", <<Info("C", "2", Absent)>>)>>,
   <<Carpark(CY, "t1", <<Info("C", "2", "7")>>), Carpark(B2, "t1", <<Info("C", "x", Absent)>>)>>}

ConcurrentFetch == FetchFrom(ConcurrentFeed, MaxConcurrentCycles, 1)

ConcurrentSecondFetch == SecondFetchFrom(ConcurrentFeed, MaxConcurrentCycles, 1)

\* both invocations, on an SQLite with and without ON CONFLICT .. DO UPDATE
NextConcurrent ==
  \/ ConcurrentFetch
  \/ UpsertBegin
  \/ UpsertBusy
  \/ UpsertCommit
  \/ UpsertRollback
  \/ ConcurrentSecondFetch
  \/ SecondUpsertBegin
  \/ SecondUpsertBusy
  \/ SecondUpsertCommit
  \/ SecondUpsertRollback
  \/ \E d \in {"avail", "avail2"} :
       \/ RebuildSnapshotBegin(d)
       \/ RebuildSnapshotBusy(d)
       \/ RebuildSnapshotCommit(d)
       \/ ReturnOk(d)

SpecConcurrent == InitStore /\ [][NextConcurrent]_vars

\* C26: the upserts of two invocations never interleave: while one has its
\* transaction open the other has none, and what it is about to commit is its
\* whole batch applied to the committed snapshot and history, the commits of the
\* other invocation included; so after both have committed every row is the
\* result of their upserts in the order of the commits, on either upsert path
C26_UpsertsSerialized ==
  /\ ~(pc.avail = "upsert_tx" /\ pc.avail2 = "upsert_tx")
  /\ pc.avail = "upsert_tx" =>
       LET b == UpsertBody(db, use_legacy_upsert, payload, retrieved_at)
       IN /\ lock = "avail"
          /\ txfail = b.failed
          /\ tx = [db EXCEPT !.avail = b.avail, !.hist = b.hist]
  /\ pc.avail2 = "upsert_tx" =>
       LET b == UpsertBody(db, second.use_legacy_upsert, second.payload, second.retrieved_at)
       IN /\ lock = "avail2"
          /\ txfail = b.failed
          /\ tx = [db EXCEPT !.avail = b.avail, !.hist = b.hist]

\* the first invocation is about to overwrite a row that the second one, which
\* read the clock later, committed while the first was waiting
C26_Witness ==
  /\ pc.avail = "upsert_tx"
  /\ ~txfail
  /\ pc.avail2 \in {"upserted", "rebuild_tx", "exporting"}
  /\ lastCommit = "upsert"
  /\ \E k \in DOMAIN db.avail :
       /\ k \in ObsKeys(payload)
       /\ db.avail[k].last_seen_at > retrieved_at
       /\ tx.avail[k] # db.avail[k]
       /\ tx.avail[k].total_lots = db.avail[k].total_lots
       /\ db.avail[k].total_lots # None

----------------------------------------------------------------------------
(* Claims on the two upsert paths and on the history *)

\* the observations from the i-th on, upserted by the native statement alone
RECURSIVE NativeAll(_, _, _, _)
NativeAll(avail, obs, i, seen) ==
  IF i > Len(obs) THEN avail
  ELSE NativeAll(NativeUpsert(avail, ObsKey(obs[i]), LotsAvail(obs[i].info),
                              ParseTotal(obs[i].info.total_lots), UpdOf(obs[i].cp), seen),
                 obs, i + 1, seen)

\* the same by the UPDATE-then-INSERT statements alone
RECURSIVE LegacyAll(_, _, _, _)
LegacyAll(avail, obs, i, seen) ==
  IF i > Len(obs) THEN avail
  ELSE LegacyAll(LegacyUpsert(avail, ObsKey(obs[i]), LotsAvail(obs[i].info),
                              ParseTotal(obs[i].info.total_lots), UpdOf(obs[i].cp), seen),
                 obs, i + 1, seen)

\* C27: a batch fails only on a malformed observation, never on the rejected ON
\* CONFLICT statement: without the native syntax the first upsert_snapshot that
\* a batch reaches switches to the legacy statements, and the snapshot a batch
\* is about to commit is the one the native statement alone gives and the one
\* the legacy statements alone give on the same committed snapshot
C27_LegacyEqualsNative ==
  pc.avail = "upsert_tx" =>
    /\ txfail = BatchFails(payload)
    /\ (/\ ~on_conflict_ok
        /\ Observations(payload, 1) # <<>>
        /\ ~LotsRaises(Observations(payload, 1)[1].info)) => use_legacy_upsert
    /\ on_conflict_ok => ~use_legacy_upsert
    /\ ~txfail =>
         LET obs == Observations(payload, 1)
         IN /\ tx.avail = MirrorStep(NativeAll(db.avail, obs, 1, retrieved_at), retrieved_at)
            /\ tx.avail = MirrorStep(LegacyAll(db.avail, obs, 1, retrieved_at), retrieved_at)

\* without the native syntax a batch is about to commit that filled the null
\* total_lots of one row, kept the total_lots of a row or inserted a new row
C27_Witness ==
  /\ ~on_conflict_ok
  /\ use_legacy_upsert
  /\ pc.avail = "upsert_tx"
  /\ ~txfail
  /\ \E k \in DOMAIN db.avail :
       /\ db.avail[k].total_lots = None
       /\ tx.avail[k].total_lots # None
  /\ \E k \in DOMAIN tx.avail : k \notin DOMAIN db.avail

\* C28: the history_inserts of a batch that is about to commit is the number of
\* rows by which its history is longer than the committed one, whose rows it
\* keeps in place; an observation that is already in the history is not counted,
\* and the batch is applied all the same: every observation, the ignored ones
\* included, is in the snapshot with this cycle's last_seen_at, and the eviction
\* has run
C28_HistoryInsertsCount ==
  (pc.avail = "upsert_tx" /\ ~txfail) =>
    LET b == UpsertBody(db, use_legacy_upsert, payload, retrieved_at)
    IN /\ b.history_inserts = Len(tx.hist) - Len(db.hist)
       /\ SubSeq(tx.hist, 1, Len(db.hist)) = db.hist
       /\ BatchApplied(tx, payload, retrieved_at)

\* a batch of two observations is about to commit of which the first is already
\* in the history, and its snapshot row is rewritten, while the second is new
C28_Witness ==
  /\ pc.avail = "upsert_tx"
  /\ ~txfail
  /\ Len(Observations(payload, 1)) = 2
  /\ Len(tx.hist) - Len(db.hist) = 1
  /\ LET o == Observations(payload, 1)[1]
     IN /\ HistConflict(db.hist, o.cp.carpark_number, o.info.lot_type, UpdOf(o.cp))
        /\ tx.avail[ObsKey(o)] # db.avail[ObsKey(o)]

\* C29: in every step the committed history keeps its rows, in place and as they
\* are, and a row that is added does not have the carpark_number, lot_type and
\* (non-null) update_datetime of a row that was there: a repeated observation,
\* whatever its lots_available, leaves the recorded one as it is
C29_HistoryAppendOnly ==
  [][/\ Len(db'.hist) >= Len(db.hist)
     /\ SubSeq(db'.hist, 1, Len(db.hist)) = db.hist
     /\ \A i \in (Len(db.hist) + 1)..Len(db'.hist) :
          ~HistConflict(db.hist, db'.hist[i].carpark_number, db'.hist[i].lot_type,
                        db'.hist[i].update_datetime)]_vars

\* a batch has committed whose observation was in the history with another
\* lots_available and an earlier retrieved_at, and the history is as it was
C29_Witness ==
  /\ pc.avail = "upserted"
  /\ payload # <<>>
  /\ LET o == Observations(payload, 1)[1]
     IN \E i \in 1..Len(db.hist) :
          /\ db.hist[i].carpark_number = o.cp.carpark_number
          /\ db.hist[i].lot_type = o.info.lot_type
          /\ db.hist[i].update_datetime = UpdOf(o.cp)
          /\ db.hist[i].lots_available # LotsAvail(o.info)
          /\ db.hist[i].retrieved_at < retrieved_at
          /\ db.avail[ObsKey(o)].lots_available = LotsAvail(o.info)

----------------------------------------------------------------------------
(* Claims on the order of the metadata and the pricing driver *)

\* carpark_info has not been replaced since a classification pass: the replace
\* writes every row with is_central NULL, the pass sets it on every row
NoReplaceSinceMark == \A cp \in DOMAIN db.info : db.info[cp].is_central # None

\* C30: when the pricing driver has run its two passes and the rebuild, no
\* metadata replace has committed since its classification pass and the rebuild
\* is the last commit, every row of the view with has_info = 1 has the
\* carpark_rate and the current_rate_30min of its facility in carpark_info, and
\* neither is null
C30_PricedAfterPricingCycle ==
  (pc.rates = "exporting" /\ lastCommit = "rebuild_join_snapshot" /\ NoReplaceSinceMark) =>
    \A k \in DOMAIN db.join :
      db.join[k].has_info = 1 =>
        /\ UpperTrim(k[1]) \in DOMAIN db.info
        /\ db.join[k].carpark_rate # None
        /\ db.join[k].current_rate_30min # None
        /\ db.join[k].carpark_rate = db.info[UpperTrim(k[1])].carpark_rate
        /\ db.join[k].current_rate_30min = db.info[UpperTrim(k[1])].current_rate_30min

\* the metadata driver has completed a cycle, the pricing driver has then rebuilt
\* the view, and a row of the view has metadata
C30_Witness ==
  /\ pc.rates = "exporting"
  /\ lastCommit = "rebuild_join_snapshot"
  /\ NoReplaceSinceMark
  /\ status.info = "ok"
  /\ \E k \in DOMAIN db.join : db.join[k].has_info = 1

----------------------------------------------------------------------------
(* Claims on the columns of the view *)

\* the row of carpark_info a snapshot row matches, all NULL without a match
InfoOf(d, k) == IF UpperTrim(k[1]) \in DOMAIN d.info THEN d.info[UpperTrim(k[1])] ELSE NullInfo

\* C31: whenever a rebuild by the availability, pricing or metadata driver is
\* about to commit, every row of the view has the availability columns of its
\* snapshot row and the static attribute and the four pricing columns of the
\* matching row of carpark_info, null without a match
C31_ViewIsFunctionOfStores ==
  \A d \in {"avail", "avail2", "rates", "info"} :
    (pc[d] = "rebuild_tx" /\ ~txfail) =>
      /\ DOMAIN tx.join = DOMAIN tx.avail
      /\ \A k \in DOMAIN tx.join :
           /\ tx.join[k].lots_available = tx.avail[k].lots_available
           /\ tx.join[k].total_lots = tx.avail[k].total_lots
           /\ tx.join[k].update_datetime = tx.avail[k].update_datetime
           /\ tx.join[k].night_parking = InfoOf(tx, k).night_parking
           /\ tx.join[k].carpark_rate = InfoOf(tx, k).carpark_rate
           /\ tx.join[k].current_rate_30min = InfoOf(tx, k).current_rate_30min
           /\ tx.join[k].active_cap_type = InfoOf(tx, k).active_cap_type
           /\ tx.join[k].active_cap_amount = InfoOf(tx, k).active_cap_amount

----------------------------------------------------------------------------
(* The pull of the registry, page by page *)

Min(a, b) == IF a < b THEN a ELSE b

\* what the registry answers to limit and offset: the records after the first
\* offset ones, at most limit of them, in the order of the registry
Page(source, limit, offset) == SubSeq(source, offset + 1, Min(offset + limit, Len(source)))

\* the loop of fetch_info_records that goes on after a page of full size only when
\* it is the second one asked for
PullStepStopsAtFullPage(p) ==
  LET page == Page(p.source, p.page_size, p.offset)
      asked == [p EXCEPT !.requests = @ + 1]
  IN IF page = <<>>
       THEN [asked EXCEPT !.done = TRUE]
       ELSE IF Len(page) < p.page_size \/ p.requests >= 1
              THEN [asked EXCEPT !.all_records = @ \o page, !.done = TRUE]
              ELSE [asked EXCEPT !.all_records = @ \o page, !.offset = @ + Len(page)]

\* one turn of the loop of fetch_info_records: ask for a page, stop on an empty one,
\* keep its records, stop on a short one, else move the offset on
PullStep(p) ==
  LET page == Page(p.source, p.page_size, p.offset)
      asked == [p EXCEPT !.requests = @ + 1]
  IN IF page = <<>>
       THEN [asked EXCEPT !.done = TRUE]
       ELSE IF Len(page) < p.page_size
              THEN [asked EXCEPT !.all_records = @ \o page, !.done = TRUE]
              ELSE [asked EXCEPT !.all_records = @ \o page, !.offset = @ + Len(page)]

\* a request of the loop is answered
FetchPage ==
  /\ ~pull.done
  /\ pull' = PullStep(pull)
  /\ UNCHANGED <<db, tx, txfail, lock, pc, clock, strict, on_conflict_ok, use_legacy_upsert,
                 payload, retrieved_at, status, runs, lastCommit, first_ever, first_since,
                 records, mapping, default_text, civil, counts, second, csv_rows, users>>

\* a request of the loop fails: raise_for_status raises and nothing is returned
PullError ==
  /\ ~pull.done
  /\ pull' = [pull EXCEPT !.requests = @ + 1, !.done = TRUE, !.failed = TRUE]
  /\ UNCHANGED <<db, tx, txfail, lock, pc, clock, strict, on_conflict_ok, use_legacy_upsert,
                 payload, retrieved_at, status, runs, lastCommit, first_ever, first_since,
                 records, mapping, default_text, civil, counts, second, csv_rows, users>>

\* a registry of up to MaxRecords records, told apart by their place, pulled with a
\* page size of 1 to MaxPageSize
InitPull ==
  /\ InitHandlers
  /\ strict
  /\ on_conflict_ok
  /\ \E n \in 0..MaxRecords, ps \in 1..MaxPageSize :
       pull = [source |-> [i \in 1..n |-> i], page_size |-> ps, offset |-> 0,
               all_records |-> <<>>, requests |-> 0, done |-> FALSE, failed |-> FALSE]

NextPull ==
  \/ FetchPage
  \/ PullError

\* every request is answered or fails within its timeout
SpecPull == InitPull /\ [][NextPull]_vars /\ WF_vars(NextPull)

(* Claims on the pull of the registry *)

\* the records gathered so far are the first ones of the registry, and while the loop
\* runs the offset is their number; a loop that ended without a failure has gathered
\* the whole registry and has asked for one page more than the full pages it holds
PullInv ==
  /\ pull.all_records = SubSeq(pull.source, 1, Len(pull.all_records))
  /\ ~pull.done => pull.offset = Len(pull.all_records)
  /\ ~pull.done => Len(pull.all_records) = pull.requests * pull.page_size
  /\ (pull.done /\ ~pull.failed) =>
       /\ pull.all_records = pull.source
       /\ pull.requests = Len(pull.source) \div pull.page_size + 1

\* C32: for a registry of finitely many records and a page size of at least one, the
\* loop of fetch_info_records ends, at the first page that is empty or shorter than
\* the page size; the list it returns is the pages it fetched one after another,
\* which is the registry in its order, no record left out and none twice
C32_PullReturnsAllRecords == []PullInv /\ <>pull.done

\* a pull of three requests that an empty page ended
C32_Witness ==
  /\ pull.done
  /\ ~pull.failed
  /\ pull.requests = 3
  /\ Len(pull.source) = 2 * pull.page_size
  /\ pull.all_records = pull.source

----------------------------------------------------------------------------
(* The pricing passes at every minute of the day *)

\* every weekday, hour and minute that sgt_now can show
EveryMinute == {<<wk, hh, mm>> : wk \in 0..6, hh \in 0..23, mm \in 0..59}

\* one registry: a central facility with night parking, an outlying one without
WindowsInfoFeed == {<<Rec(CY, <<>>, YES), Rec(B2, <<>>, NO)>>}

WindowsInfoFetch == InfoFetchFrom(WindowsInfoFeed, MaxWindowRuns)

RefreshEveryMinute == RefreshBeginAt(EveryMinute)

\* the metadata and the pricing driver, the time-window pass at any minute
NextWindows ==
  \/ WindowsInfoFetch
  \/ LoadBegin
  \/ LoadCommit
  \/ RebuildTableBegin
  \/ RebuildTableCommit
  \/ MarkBegin(MaxWindowRuns)
  \/ MarkCommit
  \/ RefreshEveryMinute
  \/ RefreshCommit
  \/ RebuildSnapshotBegin("rates")
  \/ RebuildSnapshotCommit("rates")
  \/ \E d \in {"info", "rates"} : ReturnOk(d)

\* eviction plays no part in the pricing passes: the strict mirror is kept
InitWindows == Init /\ strict

SpecWindows == InitWindows /\ [][NextWindows]_vars

(* Claims on the two windows of the day *)

\* C33: at every hour 0..23 and minute 0..59 exactly one of in_night and in_day
\* holds, in_night from 22:30 up to but excluding 07:00 and in_day from 07:00 up to
\* but excluding 22:30; so right after a time-window pass commits, the cap type and
\* the cap amount of a facility are null exactly when the time is in the night
\* window and the facility has no night parking
C33_WindowsPartitionTheDay ==
  JustRefreshed =>
    /\ InNight(civil[2], civil[3]) # InDay(civil[2], civil[3])
    /\ InNight(civil[2], civil[3]) <=> (MinuteOfDay >= 1350 \/ MinuteOfDay < 420)
    /\ InDay(civil[2], civil[3]) <=> (MinuteOfDay >= 420 /\ MinuteOfDay < 1350)
    /\ \A cp \in DOMAIN db.info :
         LET nulls == (MinuteOfDay >= 1350 \/ MinuteOfDay < 420)
                        /\ ~Nps(db.info[cp].night_parking)
         IN /\ (db.info[cp].active_cap_type = None) <=> nulls
            /\ (db.info[cp].active_cap_amount = None) <=> nulls

\* a pass at 06:59 has left the facility without night parking with no cap and
\* has given the other one the night cap
C33_Witness ==
  /\ JustRefreshed
  /\ civil[2] = 6 /\ civil[3] = 59
  /\ \E cp \in DOMAIN db.info :
       /\ ~Nps(db.info[cp].night_parking)
       /\ db.info[cp].active_cap_type = None
       /\ db.info[cp].active_cap_amount = None
  /\ \E cp \in DOMAIN db.info :
       /\ Nps(db.info[cp].night_parking)
       /\ db.info[cp].active_cap_type = Some("NPS_NIGHT_CAP")

----------------------------------------------------------------------------
(* rebuild_join_snapshot on a view whose rows carry any annotations *)

\* two categories of one facility and one of another
CarryKeys == {<<CY, "C">>, <<CY, "H">>, <<B2, "C">>}

\* ev_lot_location of a row: NULL, the empty text, texts of which one begins
\* another, the default text
CarryTexts == {None, Some(<<>>), Some(<<"L">>), Some(L1), Some(L2), Some(NO_EV_TEXT)}

\* the snapshot store with a row for every key
CarryAvail == [k \in CarryKeys |-> AvailRow(1, Some(5), Some("t1"), 0)]

\* the views over some of the keys, built as rebuild_join_snapshot builds them, with
\* every choice of annotation in every row
CarryViews ==
  UNION {{[k \in K |-> [InsertAll({SnapshotSelect(r) : r \in LeftJoin(CarryAvail, EmptyTable)})[k]
                          EXCEPT !.ev_lot_location = e[k]]] : e \in [K -> CarryTexts]}
         : K \in SUBSET CarryKeys}

InitCarry ==
  /\ InitLocals
  /\ strict
  /\ on_conflict_ok
  /\ pull = NoPull
  /\ \E v \in CarryViews : db = [EmptyDb EXCEPT !.avail = CarryAvail, !.join = v]

\* the pricing driver alone
NextCarry ==
  \/ MarkBegin(MaxCarryRuns)
  \/ MarkCommit
  \/ RefreshBegin
  \/ RefreshCommit
  \/ RebuildSnapshotBegin("rates")
  \/ RebuildSnapshotCommit("rates")
  \/ ReturnOk("rates")

SpecCarry == InitCarry /\ [][NextCarry]_vars

(* Claims on the annotation a rebuild carries forward *)

\* the annotations, NULL left out, of the rows of a facility in a view
PriorEv(join, cp_no) ==
  {join[k].ev_lot_location : k \in {x \in DOMAIN join : x[1] = cp_no}} \ {None}

\* C34: when rebuild_join_snapshot is about to commit, every row of a facility
\* carries the greatest, in the order of the texts, of the annotations other than
\* NULL that the rows of the facility carried before the rebuild, also when these
\* rows carried different ones; a facility whose rows all carried NULL, or that had
\* no row, carries NULL
C34_CarryForwardPicksGreatest ==
  (pc.rates = "rebuild_tx" /\ ~txfail) =>
    \A k \in DOMAIN tx.join :
      LET prior == PriorEv(db.join, k[1])
          now == tx.join[k].ev_lot_location
      IN IF prior = {} THEN now = None
         ELSE now \in prior /\ \A w \in prior : ~TextLess(now[1], w[1])

\* before the rebuild the two categories of a facility carried different texts, one
\* the beginning of the other; both rows now carry the longer one; the rows of
\* another facility carried NULL and still do
C34_Witness ==
  /\ pc.rates = "rebuild_tx" /\ ~txfail
  /\ DOMAIN db.join = CarryKeys
  /\ db.join[<<CY, "C">>].ev_lot_location = Some(L1)
  /\ db.join[<<CY, "H">>].ev_lot_location = Some(<<"L">>)
  /\ db.join[<<B2, "C">>].ev_lot_location = None
  /\ tx.join[<<CY, "C">>].ev_lot_location = Some(L1)
  /\ tx.join[<<CY, "H">>].ev_lot_location = Some(L1)
  /\ tx.join[<<B2, "C">>].ev_lot_location = None

----------------------------------------------------------------------------
(* Claims on the replace of the registry *)

\* the ids of the pulled records as the loader normalizes them, blank ones left out
PulledIds(recs) == {RecId(recs[i]) : i \in 1..Len(recs)} \ {<<>>}

\* C35: when load_info_into_sqlite is about to commit, carpark_info holds exactly
\* the normalized ids of the pulled records that are not blank, whatever it held
\* before, and the row count it returns is the number of rows inserted, which is
\* the number of records with an id and the number of rows of the table; after the
\* commit the count is still the number of rows of the table
C35_LoadIsFullReplace ==
  /\ (pc.info = "load_tx" /\ ~txfail) =>
       /\ DOMAIN tx.info = PulledIds(records)
       /\ counts.info_rows = Some(Cardinality({i \in 1..Len(records) : RecId(records[i]) # <<>>}))
       /\ counts.info_rows = Some(Cardinality(DOMAIN tx.info))
  /\ pc.info = "loaded" => counts.info_rows = Some(Cardinality(DOMAIN db.info))

\* a pull of a record for one facility and a record without an id is about to
\* replace a table that held another facility: that one is gone, one row is counted
C35_Witness ==
  /\ pc.info = "load_tx" /\ ~txfail
  /\ Len(records) = 2
  /\ \E i \in 1..2 : RecId(records[i]) = <<>>
  /\ DOMAIN db.info = {CY}
  /\ DOMAIN tx.info = {B2}
  /\ counts.info_rows = Some(1)

\* two of the pulled records have the same normalized id, which is not blank
SameIdTwice(recs) ==
  \E i, j \in 1..Len(recs) : i # j /\ RecId(recs[i]) = RecId(recs[j]) /\ RecId(recs[i]) # <<>>

\* C36: the load fails on the PRIMARY KEY of carpark_info exactly when two pulled
\* records have the same normalized id; the metadata driver then rolls back the
\* DELETE and the rows inserted so far, so that the store is as it was before the
\* load, and its invocation ends with the error, without a rebuild of the view
C36_DuplicateIdRollsBack ==
  [][/\ pc.info = "load_tx" => (txfail <=> SameIdTwice(records))
     /\ (pc.info = "load_tx" /\ txfail /\ pc'.info # "load_tx") =>
          /\ db' = db
          /\ pc'.info = "idle"
          /\ status'.info = "error"
          /\ lastCommit' = lastCommit]_vars

\* the second record of a pull repeats the id of the first in another spelling: the
\* table of the transaction holds the first record instead of the facility the
\* store held, and the transaction has failed
C36_Witness ==
  /\ pc.info = "load_tx"
  /\ txfail
  /\ SameIdTwice(records)
  /\ DOMAIN db.info = {B2}
  /\ DOMAIN tx.info = {CY}

----------------------------------------------------------------------------
(* ingest_ev_locations._load_ev_mapping_csv *)

\* a row of the CSV under the two columns the loader found; a field the row lacks
\* is the empty text, as (row.get(..) or "") makes it
CsvRow(cp, ev) == [cp |-> cp, ev |-> ev]

\* cp in mapping
HasKey(m, cp) == \E j \in 1..Len(m) : m[j][1] = cp

\* a loader in which a later row with a text replaces the entry of its id
RECURSIVE load_ev_mapping_last_wins(_, _, _)
load_ev_mapping_last_wins(m, rows, i) ==
  IF i > Len(rows) THEN m
  ELSE LET cp == UPPER(TRIM(rows[i].cp))
           ev == TRIM(rows[i].ev)
           others_of == SelectSeq(m, LAMBDA e : e[1] # cp)
       IN load_ev_mapping_last_wins(
            IF cp = <<>> THEN m
            ELSE IF ev # <<>> THEN Append(others_of, Text(cp, ev))
            ELSE m,
            rows, i + 1)

\* the loop of _load_ev_mapping_csv over the rows: cp stripped and in upper case, ev
\* stripped; a row without cp is skipped; mapping[cp] = ev when cp is not in the
\* mapping and ev is not empty. The mapping is the list of its items in the order
\* they were put in
RECURSIVE load_ev_mapping_csv(_, _, _)
load_ev_mapping_csv(m, rows, i) ==
  IF i > Len(rows) THEN m
  ELSE LET cp == UPPER(TRIM(rows[i].cp))
           ev == TRIM(rows[i].ev)
       IN load_ev_mapping_csv(
            IF cp = <<>> THEN m
            ELSE IF ~HasKey(m, cp) /\ ev # <<>> THEN Append(m, Text(cp, ev))
            ELSE m,
            rows, i + 1)

\* the rows a CSV can hold: ids in either case, padded, blank; texts, padded, blank
CsvRowKinds ==
  {CsvRow(cp, ev) : cp \in {CY, cy_, B2, <<>>}, ev \in {L1, <<" ", "L", "2">>, <<>>, <<" ">>}}

RECURSIVE SeqsUpTo(_, _)
SeqsUpTo(S, n) ==
  IF n = 0 THEN {<<>>}
  ELSE LET shorter == SeqsUpTo(S, n - 1)
       IN shorter \cup {Append(q, x) : q \in {r \in shorter : Len(r) = n - 1}, x \in S}

\* every CSV of at most MaxCsvRows rows
CsvFeed == SeqsUpTo(CsvRowKinds, MaxCsvRows)

\* the CSV is downloaded and loaded, then _apply_ev_mapping up to the end of its loop
EvBeginCsv(F, maxRuns) ==
  /\ pc.ev = "idle"
  /\ runs < maxRuns
  /\ runs' = runs + 1
  /\ \E rows \in F :
       /\ csv_rows' = rows
       /\ mapping' = load_ev_mapping_csv(<<>>, rows, 1)
       /\ default_text' = NO_EV_TEXT
       /\ Begin("ev", ApplyEvBody(db, load_ev_mapping_csv(<<>>, rows, 1), NO_EV_TEXT), FALSE)
  /\ Goto("ev", "ev_tx")
  /\ Returns("ev", "none")
  /\ UNCHANGED <<db, clock, strict, on_conflict_ok, use_legacy_upsert, payload, retrieved_at,
                 lastCommit, first_ever, first_since, records, civil, counts, second, pull,
                 users>>

LoaderEvBegin == EvBeginCsv(CsvFeed, MaxLoaderRuns)

\* the annotation driver alone, on every CSV
NextLoader ==
  \/ LoaderEvBegin
  \/ EvCommit
  \/ ReturnOk("ev")

InitLoader == Init /\ strict

SpecLoader == InitLoader /\ [][NextLoader]_vars

(* Claims on the mapping the loader returns *)

\* the rows of an id, as the loader normalizes it, that carry a text
RowsWithText(rows, cp) ==
  {i \in 1..Len(rows) : UPPER(TRIM(rows[i].cp)) = cp /\ TRIM(rows[i].ev) # <<>>}

\* the least number of a set of numbers
Least(S) == CHOOSE i \in S : \A j \in S : i <= j

\* C37: the mapping _load_ev_mapping_csv returns has one entry for every normalized
\* id, other than the blank one, that has a row with a text that is not blank, and
\* no other entry; the entry holds the text, stripped, of the first such row of the
\* id, whatever the later rows of the id hold
C37_LoaderKeepsFirstText ==
  pc.ev = "ev_tx" =>
    /\ \A j, l \in 1..Len(mapping) : mapping[j][1] = mapping[l][1] => j = l
    /\ \A j \in 1..Len(mapping) :
         /\ mapping[j][1] # <<>>
         /\ RowsWithText(csv_rows, mapping[j][1]) # {}
         /\ mapping[j][2] = TRIM(csv_rows[Least(RowsWithText(csv_rows, mapping[j][1]))].ev)
    /\ \A i \in 1..Len(csv_rows) :
         LET cp == UPPER(TRIM(csv_rows[i].cp))
         IN (cp # <<>> /\ RowsWithText(csv_rows, cp) # {}) => HasKey(mapping, cp)

\* a CSV of three rows: an id with a blank text, the same id in another spelling
\* with a text, the same id with another text; the mapping holds the text of the
\* second row
C37_Witness ==
  /\ pc.ev = "ev_tx"
  /\ csv_rows = <<CsvRow(CY, <<" ">>), CsvRow(cy_, <<" ", "L", "2">>), CsvRow(CY, L1)>>
  /\ mapping = <<Text(CY, L2)>>

----------------------------------------------------------------------------
(* Claims on the snapshot next to the history *)

\* the history has an entry for the key and the update time of the snapshot row
InHistory(d, k) ==
  \E i \in 1..Len(d.hist) :
    /\ d.hist[i].carpark_number = k[1]
    /\ d.hist[i].lot_type = k[2]
    /\ d.hist[i].update_datetime = d.avail[k].update_datetime

\* C38: in every committed state of the store, and in the state a cycle of the
\* availability driver is about to commit, the history has for every row of the
\* snapshot an entry with the same carpark_number, lot_type and update_datetime,
\* with the strict mirror and without it
C38_SnapshotWithinHistory ==
  /\ \A k \in DOMAIN db.avail : InHistory(db, k)
  /\ \A d \in {"avail", "avail2"} :
       (pc[d] = "upsert_tx" /\ ~txfail) => \A k \in DOMAIN tx.avail : InHistory(tx, k)

\* without the strict mirror the snapshot holds a row of an earlier cycle next to a
\* row of the last one, and the history has more entries than the snapshot has rows
C38_Witness ==
  /\ ~strict
  /\ lastCommit = "upsert"
  /\ \E k1, k2 \in DOMAIN db.avail : db.avail[k1].last_seen_at < db.avail[k2].last_seen_at
  /\ Len(db.hist) > Cardinality(DOMAIN db.avail)
  /\ \A k \in DOMAIN db.avail : InHistory(db, k)

----------------------------------------------------------------------------
(* A facility that leaves the view and returns *)

\* feed: one facility, or another one
ReturnFeed ==
  {<<Carpark(CY, "t1", <<Info("C", "1", Absent)>>)>>,
   <<Carpark(B2, "t1", <<Info("C", "1", Absent)>>)>>}

ReturnFetch == FetchFrom(ReturnFeed, MaxReturnRuns, 1)

ReturnMerge == EvBeginFrom({<<Text(CY, L1)>>}, {NO_EV_TEXT}, MaxReturnRuns)

\* the availability and the annotation driver; a driver that finds the store
\* locked waits
NextReturn ==
  \/ ReturnFetch
  \/ UpsertBegin
  \/ UpsertCommit
  \/ RebuildSnapshotBegin("avail")
  \/ RebuildSnapshotCommit("avail")
  \/ ReturnMerge
  \/ EvCommit
  \/ \E d \in {"avail", "ev"} : ReturnOk(d)

SpecReturn == Init /\ [][NextReturn]_vars

(* Claims on the annotation of a facility new to the view *)

\* the view has a row of the facility
InView(join, cp_no) == \E k \in DOMAIN join : k[1] = cp_no

\* every row of the facility in the view has a NULL annotation
AllNull(join, cp_no) == \A k \in DOMAIN join : k[1] = cp_no => join[k].ev_lot_location = None

\* C39: when rebuild_join_snapshot is about to commit, every row of a facility that
\* had no row in the view before the rebuild has a NULL annotation, also when the
\* facility was in the view with an annotation earlier, was evicted from the
\* snapshot and has been observed again; and the rows of a facility whose
\* annotations are all NULL get an annotation only when _apply_ev_mapping commits
C39_NewFacilityHasNoAnnotation ==
  [][/\ \A d \in {"avail", "avail2", "rates"} :
          (pc[d] = "rebuild_tx" /\ ~txfail) =>
            \A k \in DOMAIN tx.join : ~InView(db.join, k[1]) => tx.join[k].ev_lot_location = None
     /\ \A cp_no \in {k[1] : k \in DOMAIN db.join} :
          (AllNull(db.join, cp_no) /\ InView(db'.join, cp_no) /\ ~AllNull(db'.join, cp_no)) =>
            (pc.ev = "ev_tx" /\ lastCommit' = "_apply_ev_mapping")]_vars

\* the strict mirror evicted a facility that the history knows from the first
\* second, a rebuild dropped it from the view, the merge has run, and the facility,
\* observed again, is about to enter the view with a NULL annotation
C39_Witness ==
  /\ strict
  /\ pc.avail = "rebuild_tx" /\ ~txfail
  /\ status.ev = "ok"
  /\ \E i \in 1..Len(db.hist) : db.hist[i].carpark_number = CY /\ db.hist[i].retrieved_at = 0
  /\ ~InView(db.join, CY)
  /\ InView(db.join, B2)
  /\ InView(tx.join, CY)
  /\ AllNull(tx.join, CY)

----------------------------------------------------------------------------
(* users_db/user_profiles: create_user and update_user *)

LowerChar(c) == CASE c = "A" -> "a" [] c = "D" -> "d" [] OTHER -> c

\* s.lower()
LOWER(s) == [i \in 1..Len(s) |-> LowerChar(s[i])]

\* email = (body.get("email") or "").strip().lower()
EmailNorm(raw) == LOWER(TRIM(raw))

\* EMAIL_RE.match: ^[^@\s]+@[^@\s]+\.[^@\s]+$
EmailMatches(e) ==
  /\ \A i \in 1..Len(e) : e[i] # " "
  /\ \E at \in 2..Len(e) :
       /\ e[at] = "@"
       /\ \A i \in 1..Len(e) : e[i] = "@" => i = at
       /\ \E dot \in (at + 2)..(Len(e) - 1) : e[dot] = "."

\* _require_email raises
EmailInvalid(e) == e = <<>> \/ ~EmailMatches(e)

\* _require_password raises
PasswordInvalid(pw) == pw = <<>> \/ Len(pw) < 8

\* the emails of the requests: an address, the same in capitals and padded,
\* another address, and one without a dot after the @
Emails ==
  {<<"a", "@", "b", ".", "c">>, <<"A", "@", "b", ".", "c">>, <<" ", "a", "@", "b", ".", "c">>,
   <<"d", "@", "b", ".", "c">>, <<"a", "@", "b", "c">>}

\* passwords of seven and of eight characters
Passwords == {[i \in 1..7 |-> "p"], [i \in 1..8 |-> "p"]}

Body(email, password) == [email |-> email, password |-> password]

Resp(statusCode, error) == [status |-> statusCode, error |-> error]

\* the constraints of user_profiles checked on the primary key alone
UniqueViolationOnIdOnly(rows, row) == \E r \in rows : r.user_id = row.user_id

\* user_id TEXT PRIMARY KEY, email TEXT UNIQUE NOT NULL: the INSERT raises
\* IntegrityError
UniqueViolation(rows, row) == \E r \in rows : r.user_id = row.user_id \/ r.email = row.email

UsersUnchanged ==
  UNCHANGED <<db, tx, txfail, lock, pc, clock, strict, on_conflict_ok, use_legacy_upsert,
              payload, retrieved_at, status, runs, lastCommit, first_ever, first_since,
              records, mapping, default_text, civil, counts, second, pull, csv_rows>>

\* POST /signup with an email or a password that the validation of create_user
\* refuses: ValueError, statusCode 400
SignupInvalid ==
  /\ users.pc = "idle"
  /\ users.requests < MaxRequests
  /\ \E email \in Emails, password \in Passwords :
       /\ EmailInvalid(EmailNorm(email)) \/ PasswordInvalid(password)
       /\ users' = [users EXCEPT
            !.requests = @ + 1,
            !.body = Body(email, password),
            !.resp = Resp(400, IF EmailInvalid(EmailNorm(email)) THEN "Invalid email"
                               ELSE "Password must be at least 8 characters")]
  /\ UsersUnchanged

\* POST /signup: create_user up to the INSERT inside BEGIN IMMEDIATE; the user_id
\* is a new uuid4, here the number of the request
SignupBegin ==
  /\ users.pc = "idle"
  /\ users.requests < MaxRequests
  /\ \E email \in Emails, password \in Passwords :
       /\ ~EmailInvalid(EmailNorm(email))
       /\ ~PasswordInvalid(password)
       /\ LET row == [user_id |-> users.requests + 1, email |-> EmailNorm(email), profile |-> 0]
              failed == UniqueViolation(users.rows, row)
          IN users' = [users EXCEPT
               !.requests = @ + 1,
               !.body = Body(email, password),
               !.resp = Resp(0, ""),
               !.failed = failed,
               !.tx = IF failed THEN users.rows ELSE users.rows \cup {row},
               !.pc = "insert_tx"]
  /\ UsersUnchanged

\* COMMIT, and the handler answers 201
SignupCommit ==
  /\ users.pc = "insert_tx"
  /\ ~users.failed
  /\ users' = [users EXCEPT !.rows = users.tx, !.tx = {}, !.pc = "idle", !.resp = Resp(201, "")]
  /\ UsersUnchanged

\* except sqlite3.IntegrityError: ROLLBACK, ValueError("Email already exists"),
\* which the handler answers with 400
SignupRollback ==
  /\ users.pc = "insert_tx"
  /\ users.failed
  /\ users' = [users EXCEPT !.tx = {}, !.failed = FALSE, !.pc = "idle",
                            !.resp = Resp(400, "Email already exists")]
  /\ UsersUnchanged

\* PUT with an email and a profile: UPDATE .. SET profile_json, updated_at WHERE
\* email = ?, the email as sent
UpdateUser ==
  /\ users.pc = "idle"
  /\ users.requests < MaxRequests
  /\ \E email \in Emails :
       /\ ~EmailInvalid(email)
       /\ users' = [users EXCEPT
            !.requests = @ + 1,
            !.body = Body(email, <<>>),
            !.resp = Resp(200, ""),
            !.rows = {IF r.email = email THEN [r EXCEPT !.profile = 1] ELSE r : r \in users.rows}]
  /\ UsersUnchanged

InitUsers == Init /\ strict

NextUsers ==
  \/ SignupInvalid
  \/ SignupBegin
  \/ SignupCommit
  \/ SignupRollback
  \/ UpdateUser

SpecUsers == InitUsers /\ [][NextUsers]_vars

(* Claims on the user profiles *)

\* the table has a row with the email of the request, as create_user normalizes it
EmailExists == \E r \in users.rows : r.email = EmailNorm(users.body.email)

\* C40: no two rows of user_profiles have the same email, before and after every
\* step; the INSERT of a signup that passed the validation fails exactly when the
\* table has a row with its email, in lower case and stripped; create_user then
\* rolls back, the table is as it was, and the request is answered with status 400
\* and the error 'Email already exists'
C40_DuplicateEmailIsConflict ==
  [][/\ \A r1, r2 \in users.rows : r1.email = r2.email => r1 = r2
     /\ \A r1, r2 \in users'.rows : r1.email = r2.email => r1 = r2
     /\ users.pc = "insert_tx" => (users.failed <=> EmailExists)
     /\ (users.pc = "insert_tx" /\ EmailExists) =>
          /\ users'.rows = users.rows
          /\ users'.pc = "idle"
          /\ users'.resp = Resp(400, "Email already exists")]_vars

\* a signup with an address in capitals has been refused because the table holds
\* the address in lower case; the table holds this one row, which an update has
\* changed since it was created
C40_Witness ==
  /\ users.pc = "idle"
  /\ users.body = Body(<<"A", "@", "b", ".", "c">>, [i \in 1..8 |-> "p"])
  /\ users.resp = Resp(400, "Email already exists")
  /\ users.rows = {[user_id |-> 1, email |-> <<"a", "@", "b", ".", "c">>, profile |-> 1]}

====
